---------------------------- MODULE Spec2Model ----------------------------
(***************************************************************************)
(* Query-orchestration engine of the multimodal PDF RAG system:            *)
(*   - AnalyticsGraph  (langchain_server/graphs/analytics_graph.py)        *)
(*   - MultimodalRAGGraph (langchain_server/graphs/rag_graph.py)           *)
(*   - AnalyticsService.classify_query_type and the helpers the graphs     *)
(*     call (app/services/analytics_service.py)                            *)
(*   - LLMService.generate_response and its retries                        *)
(*     (app/services/llm_service.py)                                       *)
(*                                                                         *)
(* Conventions.                                                            *)
(*   A query is a sequence of one-character strings, so that Python's      *)
(*   `kw in query.lower()` is a real substring test.                       *)
(*   Any other text is a sequence of parts (strings); an f-string is the   *)
(*   concatenation of its parts, "" is << >>.  Generated prose is a        *)
(*   sequence of sentences, one per line.  The length of a text is the sum *)
(*   of the lengths of its parts (StrLen).                                 *)
(*   A dict is a function from keys to values, {} is << >>.                *)
(*   confidence is kept in hundredths (0.5 is 50): every value the code    *)
(*   adds is a multiple of 0.05, and the float the code computes rounds to *)
(*   the hundredth computed here.                                          *)
(***************************************************************************)
EXTENDS Integers, Sequences, FiniteSets, TLC

VARIABLES
    pc,       \* position of the run: the node the graph executes next
    state,    \* the AnalyticsState / RAGState dict threaded through the nodes
    result,   \* what process_analytics_query / process_query gave its caller
    trace,    \* nodes executed so far, in order
    calls,    \* collaborator calls issued so far, in order
    failed,   \* nodes in which an exception was raised
    probe     \* inputs and outputs of the pure functions checked on their own

vars == <<pc, state, result, trace, calls, failed, probe>>

----------------------------------------------------------------------------
\* Bounds of the model

\* documents one similarity search returns per content type (the code asks
\* for k = 5, 8, 10 or 15)
MaxDocs == 2

\* fragments a classifier input is put together from
MaxFrags == 2

\* the largest number of records handed to the Confidence Scorer on its own
MaxRecords == 52

----------------------------------------------------------------------------
\* Strings

EmptyDict == << >>

EmptyText == << >>

UpperChars ==
    <<"A","B","C","D","E","F","G","H","I","J","K","L","M",
      "N","O","P","Q","R","S","T","U","V","W","X","Y","Z">>

LowerChars ==
    <<"a","b","c","d","e","f","g","h","i","j","k","l","m",
      "n","o","p","q","r","s","t","u","v","w","x","y","z">>

\* str.lower() on one character
LowerChar(c) ==
    IF \E i \in 1..26 : UpperChars[i] = c
    THEN LowerChars[CHOOSE i \in 1..26 : UpperChars[i] = c]
    ELSE c

\* str.upper() on one character
UpperChar(c) ==
    IF \E i \in 1..26 : LowerChars[i] = c
    THEN UpperChars[CHOOSE i \in 1..26 : LowerChars[i] = c]
    ELSE c

\* str.lower()
Lower(s) == [i \in 1..Len(s) |-> LowerChar(s[i])]

\* str.upper()
Upper(s) == [i \in 1..Len(s) |-> UpperChar(s[i])]

\* Python's `w in s` on strings: w occurs in s as a substring
Contains(s, w) ==
    \E i \in 1..(Len(s) - Len(w) + 1) : SubSeq(s, i, i + Len(w) - 1) = w

\* any(word in s for word in words)
AnyIn(words, s) == \E i \in 1..Len(words) : Contains(s, words[i])

\* the first n items of a list: lst[:n]
Take(lst, n) == SubSeq(lst, 1, IF Len(lst) < n THEN Len(lst) ELSE n)

RECURSIVE Flatten(_)
\* the concatenation of a sequence of sequences
Flatten(ss) == IF ss = << >> THEN << >> ELSE Head(ss) \o Flatten(Tail(ss))

RECURSIVE SumSeq(_)
SumSeq(ns) == IF ns = << >> THEN 0 ELSE Head(ns) + SumSeq(Tail(ns))

\* sequences of at most n elements of S
SeqsUpTo(S, n) == UNION {[1..k -> S] : k \in 0..n}

----------------------------------------------------------------------------
\* Query Classifier

TrendWords ==
    << <<"t","r","e","n","d">>,
       <<"o","v","e","r"," ","t","i","m","e">>,
       <<"t","i","m","e","l","i","n","e">>,
       <<"c","h","a","n","g","e">>,
       <<"g","r","o","w","t","h">> >>

ComparisonWords ==
    << <<"c","o","m","p","a","r","e">>,
       <<"v","s">>,
       <<"v","e","r","s","u","s">>,
       <<"d","i","f","f","e","r","e","n","c","e">>,
       <<"b","e","t","w","e","e","n">> >>

SummaryWords ==
    << <<"s","u","m","m","a","r","y">>,
       <<"o","v","e","r","v","i","e","w">>,
       <<"s","u","m","m","a","r","i","z","e">>,
       <<"t","o","t","a","l">>,
       <<"a","v","e","r","a","g","e">> >>

PredictionWords ==
    << <<"p","r","e","d","i","c","t">>,
       <<"f","o","r","e","c","a","s","t">>,
       <<"f","u","t","u","r","e">>,
       <<"p","r","o","j","e","c","t","i","o","n">> >>

\* a classifier that tests the comparison keywords before the trend keywords
classify_query_type_swapped(query) ==
    LET query_lower == Lower(query)
    IN  IF AnyIn(ComparisonWords, query_lower) THEN "comparison"
        ELSE IF AnyIn(TrendWords, query_lower) THEN "trend_analysis"
        ELSE IF AnyIn(SummaryWords, query_lower) THEN "summary"
        ELSE IF AnyIn(PredictionWords, query_lower) THEN "prediction"
        ELSE "general"

\* AnalyticsService.classify_query_type
classify_query_type(query) ==
    LET query_lower == Lower(query)
    IN  IF AnyIn(TrendWords, query_lower) THEN "trend_analysis"
        ELSE IF AnyIn(ComparisonWords, query_lower) THEN "comparison"
        ELSE IF AnyIn(SummaryWords, query_lower) THEN "summary"
        ELSE IF AnyIn(PredictionWords, query_lower) THEN "prediction"
        ELSE "general"

----------------------------------------------------------------------------
\* Texts

\* the texts the code writes itself
NoDataAnalysis == <<"No relevant data found for analysis.">>

NoDataSummary == <<"Insufficient data for meaningful analysis.">>

NoInsights == <<"No insights could be generated from the available data.">>

ErrorInsight == <<"Analysis could not be completed due to technical issues.">>

ErrorRecommendation == <<"Please try rephrasing your query or contact support.">>

ErrorSummary == <<"Unable to complete analysis due to technical issues.">>

Apology == <<"I apologize, but I encountered an error while generating the response.">>

\* f"Trend analysis reveals: {trend_analysis}": one sentence.  Without a
\* time series the dict prints as {'trends': [], 'forecast': None,
\* 'seasonality': None, 'anomalies': [], 'confidence': 0.5}, 113 characters
\* in all; with one it gains data_points and date_range, 209 characters at
\* least (trends still empty, one-digit count)
TrendNarrative(with_series) ==
    IF with_series
    THEN <<"Trend analysis reveals: {.., 'data_points': n, 'date_range': {..}}">>
    ELSE <<"Trend analysis reveals: {'trends': [], .., 'confidence': 0.5}">>

\* what the Generation collaborator may answer: prose (a sequence of
\* sentences, one per line) or JSON text
ProseA == <<"gen:impact:50", "gen:impact:50", "gen:plain:50", "gen:plain:50">>

ProseB ==
    <<"gen:impact:51", "gen:impact:50", "gen:impact:50", "gen:impact:50",
      "gen:impact:50", "gen:impact:50", "gen:plain:12", "gen:impact:8">>

JsonList3 == <<"gen:json:[s1,s2,s3]">>

JsonList6 == <<"gen:json:[s1,s2,s3,s4,s5,s6]">>

JsonObject == <<"gen:json:{k:v}">>

Generated == {ProseA, ProseB, JsonList3, JsonList6, JsonObject}

\* str(e) of the exceptions the collaborators raise
ExcRetrieval == <<"vector store unavailable">>

ExcGeneration == <<"RetryError: generation failed">>

ExcChart == <<"chart rendering failed">>

ExcClassifier == <<"'NoneType' object has no attribute 'lower'">>

ExcGraph == <<"graph execution failed">>

\* len() of every part a text of the model is made of
PartLenTable ==
    ("No relevant data found for analysis." :> 36)
    @@ ("Insufficient data for meaningful analysis." :> 42)
    @@ ("No insights could be generated from the available data." :> 55)
    @@ ("Analysis could not be completed due to technical issues." :> 56)
    @@ ("Please try rephrasing your query or contact support." :> 52)
    @@ ("Unable to complete analysis due to technical issues." :> 52)
    @@ ("I apologize, but I encountered an error while generating the response." :> 70)
    @@ ("Analytics processing encountered an error: " :> 43)
    @@ ("Analytics processing failed: " :> 29)
    @@ ("Query classification failed: " :> 29)
    @@ ("Data gathering failed: " :> 23)
    @@ ("Data processing failed: " :> 24)
    @@ ("Insight generation failed: " :> 27)
    @@ ("Visualization creation failed: " :> 31)
    @@ ("Recommendation generation failed: " :> 34)
    @@ ("Confidence calculation failed: " :> 31)
    @@ ("Trend analysis reveals: {'trends': [], .., 'confidence': 0.5}" :> 113)
    @@ ("Trend analysis reveals: {.., 'data_points': n, 'date_range': {..}}" :> 209)
    @@ ("gen:impact:50" :> 50)
    @@ ("gen:impact:51" :> 51)
    @@ ("gen:plain:50" :> 50)
    @@ ("gen:plain:12" :> 12)
    @@ ("gen:impact:8" :> 8)
    @@ ("gen:json:[s1,s2,s3]" :> 60)
    @@ ("gen:json:[s1,s2,s3,s4,s5,s6]" :> 120)
    @@ ("gen:json:{k:v}" :> 20)
    @@ ("gen:item:1" :> 30) @@ ("gen:item:2" :> 30) @@ ("gen:item:3" :> 30)
    @@ ("gen:item:4" :> 30) @@ ("gen:item:5" :> 30) @@ ("gen:item:6" :> 30)
    @@ ("vector store unavailable" :> 24)
    @@ ("RetryError: generation failed" :> 29)
    @@ ("chart rendering failed" :> 22)
    @@ ("'NoneType' object has no attribute 'lower'" :> 42)
    @@ ("graph execution failed" :> 22)

\* len(text)
StrLen(text) == SumSeq([i \in 1..Len(text) |-> PartLenTable[text[i]]])

\* the sentences that name one of the impact keywords "increase",
\* "decrease", "trend", "significant", "growth", "decline", "improvement",
\* "higher", "lower"
ImpactParts ==
    {"gen:impact:50", "gen:impact:51", "gen:impact:8",
     "Trend analysis reveals: {'trends': [], .., 'confidence': 0.5}",
     "Trend analysis reveals: {.., 'data_points': n, 'date_range': {..}}"}

\* json.loads(response): the parsed value, or a failure for text that is no
\* JSON
JsonItems == <<"gen:item:1", "gen:item:2", "gen:item:3", "gen:item:4", "gen:item:5", "gen:item:6">>

json_loads(response) ==
    IF response = JsonList3
    THEN [ok |-> TRUE, is_list |-> TRUE, items |-> [i \in 1..3 |-> <<JsonItems[i]>>]]
    ELSE IF response = JsonList6
    THEN [ok |-> TRUE, is_list |-> TRUE, items |-> [i \in 1..6 |-> <<JsonItems[i]>>]]
    ELSE IF response = JsonObject
    THEN [ok |-> TRUE, is_list |-> FALSE, items |-> << >>]
    ELSE [ok |-> FALSE, is_list |-> FALSE, items |-> << >>]

----------------------------------------------------------------------------
\* Documents and table extraction

\* A value of a record or of a metadata dict carries its Python type:
\* [str |-> s], [num |-> n] or [list |-> l].
Str(s) == [str |-> s]

Num(n) == [num |-> n]

List(l) == [list |-> l]

\* isinstance(v, str)
IsStr(v) == "str" \in DOMAIN v

\* isinstance(v, list)
IsList(v) == "list" \in DOMAIN v

\* n row records of one table
Rows(table, n) == [i \in 1..n |-> [table |-> Str(table), row |-> Num(i)]]

\* Table documents the table store may return.  page_content is a sequence
\* of lines, a line the sequence of its "|"-separated segments, a segment
\* <<key, value>> when it holds a ":" and <<text>> when it does not;
\* metadata["table_data"], when present, holds structured row records.
DocRows20 ==
    [page_content |-> << >>,
     metadata |-> [content_type |-> "table", page_number |-> 1,
                   table_data |-> List(Rows("a", 20))]]

DocRows21 ==
    [page_content |-> << >>,
     metadata |-> [content_type |-> "table", page_number |-> 1,
                   table_data |-> List(Rows("c", 21))]]

DocRows30 ==
    [page_content |-> << >>,
     metadata |-> [content_type |-> "table", page_number |-> 2,
                   table_data |-> List(Rows("b", 30))]]

DocDated ==
    [page_content |-> << >>,
     metadata |-> [content_type |-> "table", page_number |-> 3,
                   table_data |-> List(<< [year |-> Str("2021"), revenue |-> Num(150)],
                                          [year |-> Str("2020"), revenue |-> Num(100)] >>)]]

DocPipe ==
    [page_content |-> << << <<"Table with columns", " region, sales">> >>,
                         << <<"region", " north">>, <<"sales", " $1,200">> >>,
                         << <<"n/a">>, <<"-">> >> >>,
     metadata |-> [content_type |-> "table", page_number |-> 4]]

TableDocs == {DocRows20, DocRows21, DocRows30, DocDated, DocPipe}

\* float(value.strip().replace(',', '').replace('$', '')), or the stripped
\* string when that raises
Coerce(value) ==
    CASE value = " $1,200" -> Num(1200)
      [] value = " north" -> Str("north")
      [] OTHER -> Str(value)

\* the record one line of segments gives: the ":" segments as key -> value,
\* a later segment overwriting an earlier one with the same key
LineRecord(parts) ==
    LET pairs == SelectSeq(parts, LAMBDA part : Len(part) = 2)
        keys == {pairs[i][1] : i \in 1..Len(pairs)}
        last(k) == CHOOSE i \in 1..Len(pairs) :
                       /\ pairs[i][1] = k
                       /\ \A j \in 1..Len(pairs) : pairs[j][1] = k => j <= i
    IN  [k \in keys |-> Coerce(pairs[last(k)][2])]

RECURSIVE _parse_table_content(_)
\* AnalyticsService._parse_table_content
_parse_table_content(content) ==
    IF content = << >> THEN << >>
    ELSE LET line == Head(content)
             record == LineRecord(line)
         IN  (IF Len(line) >= 2 /\ DOMAIN record # {} THEN <<record>> ELSE << >>)
             \o _parse_table_content(Tail(content))

\* what one document adds to all_data in extract_table_data
DocTableData(doc) ==
    IF "table_data" \in DOMAIN doc.metadata
    THEN IF IsList(doc.metadata.table_data) THEN doc.metadata.table_data.list ELSE << >>
    ELSE _parse_table_content(doc.page_content)

\* AnalyticsService.extract_table_data
extract_table_data(table_docs) ==
    Flatten([i \in 1..Len(table_docs) |-> DocTableData(table_docs[i])])

\* key names holding "date", "time", "year", "month" or "day"
DateLikeKeys == {"year", "date"}

\* datetime.strptime under the formats "%Y-%m-%d", "%m/%d/%Y", "%Y", "%m/%Y"
\* tried in that order: the date as yyyymmdd, or 0 when the string parses
\* under none of them
ParseDate(value) ==
    CASE value = "2020" -> 20200101
      [] value = "2021" -> 20210101
      [] value = "2020-03-01" -> 20200301
      [] OTHER -> 0

\* bool(_extract_time_series(data)): some record carries a date-like key that
\* the first five records name, with a str value that parses
HasTimeSeries(data) ==
    LET date_columns ==
            UNION {DOMAIN data[i] \cap DateLikeKeys : i \in 1..Len(Take(data, 5))}
    IN  \E i \in 1..Len(data) : \E c \in date_columns \cap DOMAIN data[i] :
            /\ IsStr(data[i][c])
            /\ ParseDate(data[i][c].str) # 0

----------------------------------------------------------------------------
\* Collaborators: every call either raises or returns one of a few values

\* a call that raised e
Raised(e) == [ok |-> FALSE, exc |-> e]

\* a call that returned v
Returned(v) == [ok |-> TRUE, val |-> v]

\* dict.get(key, default)
Get(d, key, default) == IF key \in DOMAIN d THEN d[key] ELSE default

TextDoc ==
    [page_content |-> <<"Revenue grew in every region.">>,
     metadata |-> [content_type |-> "text", page_number |-> 1]]

ImageDoc ==
    [page_content |-> <<"Figure 2: revenue by quarter">>,
     metadata |-> [content_type |-> "image", page_number |-> 2]]

\* MultimodalVectorStoreService.search_multimodal: one list per requested
\* content type, or the exception of a failing store
SearchOutcomes(content_types, table_docs) ==
    LET types == {content_types[i] : i \in 1..Len(content_types)}
    IN  {Raised(ExcRetrieval)}
        \cup {Returned([t \in types |-> CASE t = "table" -> tables
                                          [] t = "text" -> texts
                                          [] OTHER -> images]) :
                 tables \in SeqsUpTo(table_docs, MaxDocs),
                 texts \in {<< >>, <<TextDoc>>},
                 images \in {<< >>, <<ImageDoc>>}}

\* the search returned, and returned no document of any content type
NoDocuments(out) == out.ok /\ \A t \in DOMAIN out.val : out.val[t] = << >>

\* LLMService.generate_response, seen from its caller
GenerationOutcomes == {Raised(ExcGeneration)} \cup {Returned(g) : g \in Generated}

ChartSpec ==
    [chart |-> "plotly_json", config |-> "chart_config", data_summary |-> "summary"]

\* Chart collaborator: a chart, no chart, or a failure
ChartOutcomes == {Raised(ExcChart), Returned(EmptyDict), Returned(ChartSpec)}

\* AnalyticsService.classify_query_type called from the node: it returns, or
\* raises
ClassifierOutcomes == {Raised(ExcClassifier), Returned("classified")}

\* a call made without a collaborator
NoCall == Returned("none")

----------------------------------------------------------------------------
\* Analytics workflow: the nodes of AnalyticsGraph

AnalyticsQueries ==
    { <<"T","r","e","n","d"," ","o","v","e","r"," ","t","i","m","e"," ","v","s"," ","l","a","s","t"," ","y","e","a","r">>,
      <<"C","o","m","p","a","r","e"," ","Q","1"," ","v","s"," ","Q","2"," ","r","e","v","e","n","u","e">>,
      <<"S","a","l","e","s"," ","s","u","m","m","a","r","y">>,
      <<"F","o","r","e","c","a","s","t">>,
      <<"H","e","l","l","o">> }

\* the analysis_type argument of process_analytics_query: None or a name
CallerTypes == {"None", "summary"}

\* AnalyticsState(...) in process_analytics_query
InitialAnalyticsState(query, analysis_type) ==
    [query |-> query,
     analysis_type |-> IF analysis_type = "None" THEN "" ELSE analysis_type,
     raw_data |-> << >>,
     processed_data |-> EmptyDict,
     insights |-> << >>,
     charts |-> EmptyDict,
     recommendations |-> << >>,
     confidence |-> 0,
     error |-> EmptyText]

\* an except clause that records nothing
SetError_silent(s, what, out) == s

\* the except clause of a node: state["error"] = f"<what> failed: {str(e)}"
SetError(s, what, out) == [s EXCEPT !.error = <<what>> \o out.exc]

\* a node that classifies only when the caller gave no analysis type
_classify_query_unless_given(s, out) ==
    IF out.ok
    THEN IF s.analysis_type = "" THEN [s EXCEPT !.analysis_type = classify_query_type(s.query)]
         ELSE s
    ELSE SetError(s, "Query classification failed: ", out)

\* AnalyticsGraph._classify_query
_classify_query(s, out) ==
    IF out.ok
    THEN [s EXCEPT !.analysis_type = classify_query_type(s.query)]
    ELSE SetError(s, "Query classification failed: ", out)

\* AnalyticsGraph._should_continue_after_classification
_should_continue_after_classification(s) ==
    IF Get(s, "error", EmptyText) # EmptyText THEN "error" ELSE "continue"

\* a search of the same breadth for every analysis type
GatherSearch_uniform(s) == [content_types |-> <<"text", "table">>, k_per_type |-> 8]

\* the search _gather_data asks for: content types and k per type
GatherSearch(s) ==
    IF s.analysis_type \in {"trend_analysis", "comparison"}
    THEN [content_types |-> <<"table", "text">>, k_per_type |-> 15]
    ELSE IF s.analysis_type = "summary"
    THEN [content_types |-> <<"text", "table", "image">>, k_per_type |-> 10]
    ELSE [content_types |-> <<"text", "table">>, k_per_type |-> 8]

\* AnalyticsGraph._gather_data
_gather_data(s, out) ==
    IF out.ok
    THEN [s EXCEPT !.raw_data = extract_table_data(Get(out.val, "table", << >>))]
    ELSE SetError(s, "Data gathering failed: ", out)

\* AnalyticsGraph._calculate_basic_stats
_calculate_basic_stats(data) ==
    IF data = << >> THEN EmptyDict
    ELSE [total_records |-> Len(data),
          columns |-> UNION {DOMAIN data[i] : i \in 1..Len(data)},
          sample_record |-> data[1]]

\* AnalyticsService.analyze_trends: the trends dict, here by whether the
\* table documents of its own search hold a time series
analyze_trends(search_results) ==
    HasTimeSeries(extract_table_data(Get(search_results, "table", << >>)))

\* the collaborator _process_data calls for the state it is given
ProcessCall(s) ==
    IF s.raw_data = << >> THEN "none"
    ELSE IF s.analysis_type = "trend_analysis" THEN "retrieval"
    ELSE "generation"

\* AnalyticsGraph._process_trend_data
_process_trend_data(data, search_results) ==
    LET trend_analysis == analyze_trends(search_results)
    IN  [analysis |-> TrendNarrative(trend_analysis),
         trend_data |-> trend_analysis,
         statistics |-> _calculate_basic_stats(data)]

\* AnalyticsGraph._process_comparison_data
_process_comparison_data(data, analysis) ==
    [analysis |-> analysis,
     comparison_data |-> data,
     statistics |-> _calculate_basic_stats(data)]

\* AnalyticsGraph._process_summary_data
_process_summary_data(data, analysis) ==
    [analysis |-> analysis,
     summary_stats |-> _calculate_basic_stats(data),
     statistics |-> _calculate_basic_stats(data)]

\* AnalyticsGraph._process_general_data
_process_general_data(data, analysis) ==
    [analysis |-> analysis,
     data_overview |-> [record_count |-> Len(data)],
     statistics |-> _calculate_basic_stats(data)]

\* AnalyticsGraph._process_data
_process_data(s, out) ==
    IF s.raw_data = << >>
    THEN [s EXCEPT !.processed_data =
              [analysis |-> NoDataAnalysis,
               statistics |-> EmptyDict,
               summary |-> NoDataSummary]]
    ELSE IF ~out.ok THEN SetError(s, "Data processing failed: ", out)
    ELSE IF s.analysis_type = "trend_analysis"
    THEN [s EXCEPT !.processed_data = _process_trend_data(s.raw_data, out.val)]
    ELSE IF s.analysis_type = "comparison"
    THEN [s EXCEPT !.processed_data = _process_comparison_data(s.raw_data, out.val)]
    ELSE IF s.analysis_type = "summary"
    THEN [s EXCEPT !.processed_data = _process_summary_data(s.raw_data, out.val)]
    ELSE [s EXCEPT !.processed_data = _process_general_data(s.raw_data, out.val)]

\* AnalyticsService._extract_insights_fallback
_extract_insights_fallback(analysis) ==
    LET kept == SelectSeq(analysis, LAMBDA sentence :
                    PartLenTable[sentence] > 20 /\ sentence \in ImpactParts)
    IN  [i \in 1..Len(Take(kept, 5)) |-> <<kept[i]>>]

\* AnalyticsService.extract_insights, given the Generation response
extract_insights(analysis, response) ==
    LET insights == json_loads(response)
    IN  IF insights.ok
        THEN IF insights.is_list THEN insights.items ELSE <<response>>
        ELSE _extract_insights_fallback(analysis)

\* whether _generate_insights calls the Generation collaborator
InsightsCall(s) == "analysis" \in DOMAIN s.processed_data

\* AnalyticsGraph._generate_insights
_generate_insights(s, out) ==
    IF "analysis" \in DOMAIN s.processed_data
    THEN IF out.ok
         THEN [s EXCEPT !.insights = extract_insights(s.processed_data.analysis, out.val)]
         ELSE SetError(s, "Insight generation failed: ", out)
    ELSE [s EXCEPT !.insights = <<NoInsights>>]

\* a Chart call made for every analysis type
ChartCall_any_type(s) == s.raw_data # << >>

\* whether _create_visualizations calls the Chart collaborator
ChartCall(s) ==
    s.raw_data # << >> /\ s.analysis_type \in {"trend_analysis", "comparison"}

\* AnalyticsGraph._create_visualizations
_create_visualizations(s, out) ==
    IF ChartCall(s)
    THEN IF out.ok
         THEN [s EXCEPT !.charts = IF out.val # EmptyDict THEN out.val ELSE EmptyDict]
         ELSE SetError(s, "Visualization creation failed: ", out)
    ELSE [s EXCEPT !.charts = EmptyDict]

\* the recommendations _formulate_recommendations takes from the response
ParseRecommendations(response) ==
    LET recommendations == json_loads(response)
    IN  IF recommendations.ok
        THEN IF recommendations.is_list THEN recommendations.items ELSE <<response>>
        ELSE LET lines == SelectSeq(response, LAMBDA line : PartLenTable[line] > 10)
             IN  [i \in 1..Len(Take(lines, 5)) |-> <<lines[i]>>]

\* a node that also writes a fallback recommendation when it fails
_formulate_recommendations_apologising(s, out) ==
    IF out.ok
    THEN [s EXCEPT !.recommendations = ParseRecommendations(out.val)]
    ELSE [SetError(s, "Recommendation generation failed: ", out)
              EXCEPT !.recommendations = <<ErrorRecommendation>>]

\* AnalyticsGraph._formulate_recommendations
_formulate_recommendations(s, out) ==
    IF out.ok
    THEN [s EXCEPT !.recommendations = ParseRecommendations(out.val)]
    ELSE SetError(s, "Recommendation generation failed: ", out)

\* a confidence that is not clamped
Clamp_absent(confidence) == confidence

\* min(1.0, confidence), in hundredths
Clamp(confidence) == IF confidence > 100 THEN 100 ELSE confidence

\* a scorer whose two quantity bonuses are exchanged
_calculate_confidence_exchanged(s) ==
    LET base == 50
        quantity == IF Len(s.raw_data) > 50 THEN 10
                    ELSE IF Len(s.raw_data) > 20 THEN 20 ELSE 0
        quality == IF StrLen(Get(s.processed_data, "analysis", EmptyText)) > 200
                   THEN 10 ELSE 0
        insight == IF Len(s.insights) >= 3 THEN 10 ELSE 0
        visual == IF s.charts # EmptyDict THEN 10 ELSE 0
        kind == IF s.analysis_type \in {"trend_analysis", "summary"} THEN 5 ELSE 0
    IN  [s EXCEPT !.confidence =
             Clamp(base + quantity + quality + insight + visual + kind)]

\* a scorer that counts a narrative of exactly 200 characters as long
_calculate_confidence_ge200(s) ==
    LET base == 50
        quantity == IF Len(s.raw_data) > 50 THEN 20
                    ELSE IF Len(s.raw_data) > 20 THEN 10 ELSE 0
        quality == IF StrLen(Get(s.processed_data, "analysis", EmptyText)) >= 200
                   THEN 10 ELSE 0
        insight == IF Len(s.insights) >= 3 THEN 10 ELSE 0
        visual == IF s.charts # EmptyDict THEN 10 ELSE 0
        kind == IF s.analysis_type \in {"trend_analysis", "summary"} THEN 5 ELSE 0
    IN  [s EXCEPT !.confidence =
             Clamp(base + quantity + quality + insight + visual + kind)]

\* a scorer that starts from 0.0 and adds the same bonuses
_calculate_confidence_from_zero(s) ==
    LET quantity == IF Len(s.raw_data) > 50 THEN 20
                    ELSE IF Len(s.raw_data) > 20 THEN 10 ELSE 0
        quality == IF StrLen(Get(s.processed_data, "analysis", EmptyText)) > 200
                   THEN 10 ELSE 0
        insight == IF Len(s.insights) >= 3 THEN 10 ELSE 0
        visual == IF s.charts # EmptyDict THEN 10 ELSE 0
        kind == IF s.analysis_type \in {"trend_analysis", "summary"} THEN 5 ELSE 0
    IN  [s EXCEPT !.confidence = Clamp(quantity + quality + insight + visual + kind)]

\* AnalyticsGraph._calculate_confidence
_calculate_confidence(s) ==
    LET base == 50
        quantity == IF Len(s.raw_data) > 50 THEN 20
                    ELSE IF Len(s.raw_data) > 20 THEN 10 ELSE 0
        quality == IF StrLen(Get(s.processed_data, "analysis", EmptyText)) > 200
                   THEN 10 ELSE 0
        insight == IF Len(s.insights) >= 3 THEN 10 ELSE 0
        visual == IF s.charts # EmptyDict THEN 10 ELSE 0
        kind == IF s.analysis_type \in {"trend_analysis", "summary"} THEN 5 ELSE 0
    IN  [s EXCEPT !.confidence =
             Clamp(base + quantity + quality + insight + visual + kind)]

\* an error handler that also resets the analysis type
_handle_error_retyped(s) ==
    LET error_msg == Get(s, "error", <<"Unknown error occurred">>)
    IN  [s EXCEPT !.processed_data =
                      [analysis |-> <<"Analytics processing encountered an error: ">> \o error_msg,
                       statistics |-> EmptyDict,
                       summary |-> ErrorSummary],
                  !.insights = <<ErrorInsight>>,
                  !.charts = EmptyDict,
                  !.recommendations = <<ErrorRecommendation>>,
                  !.confidence = 10,
                  !.analysis_type = "general"]

\* an error handler that leaves the recommendations as they are
_handle_error_partial(s) ==
    LET error_msg == Get(s, "error", <<"Unknown error occurred">>)
    IN  [s EXCEPT !.processed_data =
                      [analysis |-> <<"Analytics processing encountered an error: ">> \o error_msg,
                       statistics |-> EmptyDict,
                       summary |-> ErrorSummary],
                  !.insights = <<ErrorInsight>>,
                  !.charts = EmptyDict,
                  !.confidence = 10]

\* AnalyticsGraph._handle_error
_handle_error(s) ==
    LET error_msg == Get(s, "error", <<"Unknown error occurred">>)
    IN  [s EXCEPT !.processed_data =
                      [analysis |-> <<"Analytics processing encountered an error: ">> \o error_msg,
                       statistics |-> EmptyDict,
                       summary |-> ErrorSummary],
                  !.insights = <<ErrorInsight>>,
                  !.charts = EmptyDict,
                  !.recommendations = <<ErrorRecommendation>>,
                  !.confidence = 10]

\* the same nodes, _retrieve_documents left without its try block
TryNodes_retrieve_unguarded ==
    {"classify_query", "gather_data", "process_data", "generate_insights",
     "create_visualizations", "formulate_recommendations", "calculate_confidence",
     "generate_response", "generate_charts"}

\* the nodes whose body is one try/except Exception block
TryNodes ==
    {"classify_query", "gather_data", "process_data", "generate_insights",
     "create_visualizations", "formulate_recommendations", "calculate_confidence",
     "retrieve", "generate_response", "generate_charts"}

\* process_analytics_query awaiting the graph outside any try block
AnalyticsOuterTry_absent == FALSE

\* whether process_analytics_query awaits the graph inside try/except
AnalyticsOuterTry == TRUE

\* edges that skip generate_insights
AnalyticsEdge_skipping(node, s) ==
    CASE node = "classify_query" ->
             IF _should_continue_after_classification(s) = "error"
             THEN "handle_error" ELSE "gather_data"
      [] node = "gather_data" -> "process_data"
      [] node = "process_data" -> "create_visualizations"
      [] node = "generate_insights" -> "create_visualizations"
      [] node = "create_visualizations" -> "formulate_recommendations"
      [] node = "formulate_recommendations" -> "calculate_confidence"
      [] node = "calculate_confidence" -> "END"
      [] node = "handle_error" -> "END"

\* edges that route to handle_error after any node that left an error
AnalyticsEdge_every_error(node, s) ==
    CASE node = "handle_error" -> "END"
      [] node # "handle_error" /\ s.error # EmptyText -> "handle_error"
      [] node = "classify_query" /\ s.error = EmptyText -> "gather_data"
      [] node = "gather_data" /\ s.error = EmptyText -> "process_data"
      [] node = "process_data" /\ s.error = EmptyText -> "generate_insights"
      [] node = "generate_insights" /\ s.error = EmptyText -> "create_visualizations"
      [] node = "create_visualizations" /\ s.error = EmptyText -> "formulate_recommendations"
      [] node = "formulate_recommendations" /\ s.error = EmptyText -> "calculate_confidence"
      [] node = "calculate_confidence" /\ s.error = EmptyText -> "END"

\* the edges of AnalyticsGraph._build_graph: the node after `node`
AnalyticsEdge(node, s) ==
    CASE node = "classify_query" ->
             IF _should_continue_after_classification(s) = "error"
             THEN "handle_error" ELSE "gather_data"
      [] node = "gather_data" -> "process_data"
      [] node = "process_data" -> "generate_insights"
      [] node = "generate_insights" -> "create_visualizations"
      [] node = "create_visualizations" -> "formulate_recommendations"
      [] node = "formulate_recommendations" -> "calculate_confidence"
      [] node = "calculate_confidence" -> "END"
      [] node = "handle_error" -> "END"

\* the dict process_analytics_query returns when the graph returned
AnalyticsResult(s) ==
    [query |-> s.query,
     analysis_type |-> s.analysis_type,
     analysis |-> Get(s.processed_data, "analysis", EmptyText),
     insights |-> s.insights,
     charts |-> s.charts,
     recommendations |-> s.recommendations,
     confidence |-> s.confidence,
     data_points |-> Len(s.raw_data),
     error |-> Get(s, "error", EmptyText)]

\* the dict process_analytics_query returns when the graph raised e
AnalyticsFailure(query, e) ==
    [query |-> query,
     analysis |-> <<"Analytics processing failed: ">> \o e,
     insights |-> << >>,
     charts |-> EmptyDict,
     recommendations |-> << >>,
     confidence |-> 10,
     data_points |-> 0,
     error |-> e]

NoResult == EmptyDict

\* an exception leaves graph.ainvoke in process_analytics_query
AnalyticsRaise(node, e) ==
    /\ IF AnalyticsOuterTry
       THEN /\ pc' = "returned"
            /\ result' = AnalyticsFailure(state.query, e)
       ELSE /\ pc' = "raised"
            /\ result' = NoResult
    /\ failed' = failed \cup {node}
    /\ UNCHANGED <<state, trace, calls, probe>>

\* one node of the analytics graph ran: `out` is what its collaborator call
\* gave, `new` the state the node returns, `called` the calls it issued
AnalyticsNode(node, out, new, called) ==
    IF ~out.ok /\ node \notin TryNodes
    THEN AnalyticsRaise(node, out.exc)
    ELSE /\ state' = new
         /\ pc' = AnalyticsEdge(node, new)
         /\ trace' = Append(trace, node)
         /\ calls' = calls \o called
         /\ failed' = IF out.ok THEN failed ELSE failed \cup {node}
         /\ UNCHANGED <<result, probe>>

Call(node, to) == [node |-> node, to |-> to]

\* AnalyticsGraph.process_analytics_query, up to the await of the graph
process_analytics_query ==
    /\ pc = "idle"
    /\ \E query \in AnalyticsQueries, analysis_type \in CallerTypes :
           state' = InitialAnalyticsState(query, analysis_type)
    /\ pc' = "classify_query"
    /\ UNCHANGED <<result, trace, calls, failed, probe>>

ClassifyQuery ==
    /\ pc = "classify_query"
    /\ \E out \in ClassifierOutcomes :
           AnalyticsNode("classify_query", out, _classify_query(state, out), << >>)

GatherData ==
    /\ pc = "gather_data"
    /\ LET search == GatherSearch(state)
       IN  \E out \in SearchOutcomes(search.content_types, TableDocs) :
               AnalyticsNode("gather_data", out, _gather_data(state, out),
                             <<[node |-> "gather_data", to |-> "retrieval",
                                content_types |-> search.content_types,
                                k_per_type |-> search.k_per_type,
                                empty |-> NoDocuments(out)]>>)

ProcessData ==
    /\ pc = "process_data"
    /\ \E out \in CASE ProcessCall(state) = "none" -> {NoCall}
                    [] ProcessCall(state) = "retrieval" ->
                           SearchOutcomes(<<"table">>, TableDocs)
                    [] OTHER -> GenerationOutcomes :
           AnalyticsNode("process_data", out, _process_data(state, out),
                         IF ProcessCall(state) = "none" THEN << >>
                         ELSE <<Call("process_data", ProcessCall(state))>>)

GenerateInsights ==
    /\ pc = "generate_insights"
    /\ \E out \in IF InsightsCall(state) THEN GenerationOutcomes ELSE {NoCall} :
           AnalyticsNode("generate_insights", out, _generate_insights(state, out),
                         IF InsightsCall(state)
                         THEN <<Call("generate_insights", "generation")>> ELSE << >>)

CreateVisualizations ==
    /\ pc = "create_visualizations"
    /\ \E out \in IF ChartCall(state) THEN ChartOutcomes ELSE {NoCall} :
           AnalyticsNode("create_visualizations", out, _create_visualizations(state, out),
                         IF ChartCall(state)
                         THEN << [node |-> "create_visualizations", to |-> "chart",
                                  outcome |-> out] >>
                         ELSE << >>)

FormulateRecommendations ==
    /\ pc = "formulate_recommendations"
    /\ \E out \in GenerationOutcomes :
           AnalyticsNode("formulate_recommendations", out,
                         _formulate_recommendations(state, out),
                         <<Call("formulate_recommendations", "generation")>>)

CalculateConfidence ==
    /\ pc = "calculate_confidence"
    /\ AnalyticsNode("calculate_confidence", NoCall, _calculate_confidence(state), << >>)

HandleError ==
    /\ pc = "handle_error"
    /\ AnalyticsNode("handle_error", NoCall, _handle_error(state), << >>)

\* graph.ainvoke returned: process_analytics_query builds its result
AnalyticsReturn ==
    /\ pc = "END"
    /\ result' = AnalyticsResult(state)
    /\ pc' = "returned"
    /\ UNCHANGED <<state, trace, calls, failed, probe>>

AnalyticsNodes ==
    {"classify_query", "gather_data", "process_data", "generate_insights",
     "create_visualizations", "formulate_recommendations", "calculate_confidence",
     "handle_error"}

\* graph.ainvoke itself raises while the graph is running (an error of the
\* graph runtime, outside every node's try block)
GraphRaises ==
    /\ pc \in AnalyticsNodes \cup {"END"}
    /\ AnalyticsRaise("graph", ExcGraph)

Init ==
    /\ pc = "idle"
    /\ state = EmptyDict
    /\ result = NoResult
    /\ trace = << >>
    /\ calls = << >>
    /\ failed = {}
    /\ probe = EmptyDict

Next ==
    \/ process_analytics_query
    \/ ClassifyQuery
    \/ GatherData
    \/ ProcessData
    \/ GenerateInsights
    \/ CreateVisualizations
    \/ FormulateRecommendations
    \/ CalculateConfidence
    \/ HandleError
    \/ AnalyticsReturn

\* an Analytics run under every combination of collaborator outcomes
Spec == Init /\ [][Next]_vars

NextEngine == Next \/ GraphRaises

\* the same, the graph runtime itself being allowed to raise
SpecEngine == Init /\ [][NextEngine]_vars

----------------------------------------------------------------------------
\* Properties of the Analytics workflow

NormalPath ==
    <<"classify_query", "gather_data", "process_data", "generate_insights",
      "create_visualizations", "formulate_recommendations", "calculate_confidence">>

ErrorPath == <<"classify_query", "handle_error">>

IsPrefix(p, q) == Len(p) <= Len(q) /\ SubSeq(q, 1, Len(p)) = p

Ran(node) == \E i \in 1..Len(trace) : trace[i] = node

Finished == pc \in {"END", "returned"}

\* the calls node issued to collaborator `to`
CallsOf(node, to) ==
    SelectSeq(calls, LAMBDA c : c.node = node /\ c.to = to)

\* the step in which the graph runs `node`
Runs(node) == pc = node /\ trace' = Append(trace, node)

\* the calls issued in the current step
NewCalls == SubSeq(calls', Len(calls) + 1, Len(calls'))

\* C1: whatever the collaborators and the classifier do, and even when the
\* graph runtime raises, process_analytics_query never raises to its caller,
\* and what it returns carries analysis, insights, charts, recommendations,
\* confidence and error.
C1_AnalyticsNeverRaises ==
    /\ pc # "raised"
    /\ pc = "returned" =>
           {"analysis", "insights", "charts", "recommendations", "confidence", "error"}
               \subseteq DOMAIN result

\* a run returned after its Generation, Retrieval and Chart calls all failed
C1_Witness ==
    /\ pc = "returned"
    /\ {"process_data", "create_visualizations", "formulate_recommendations"}
           \subseteq failed

\* C3: confidence lies in [0.0, 1.0] in every state of a run and in every
\* result, the result of a failed graph execution included.
C3_ConfidenceInRange ==
    /\ pc # "idle" => state.confidence \in 0..100
    /\ pc = "returned" => result.confidence \in 0..100

\* a trend run whose bonuses add up to 1.05 and are clamped to 1.0
C3_Witness ==
    /\ pc = "returned"
    /\ Ran("calculate_confidence")
    /\ state.analysis_type = "trend_analysis"
    /\ Len(state.raw_data) > 50
    /\ StrLen(Get(state.processed_data, "analysis", EmptyText)) > 200
    /\ Len(state.insights) >= 3
    /\ state.charts # EmptyDict
    /\ result.confidence = 100

\* C4: the nodes a run executes form one of the two paths, each node once and
\* in order: the node about to run is always the next one of the path.
C4_StageSequences ==
    /\ IsPrefix(trace, NormalPath) \/ IsPrefix(trace, ErrorPath)
    /\ pc \in AnalyticsNodes =>
           \/ IsPrefix(Append(trace, pc), NormalPath)
           \/ IsPrefix(Append(trace, pc), ErrorPath)
    /\ Finished => trace \in {NormalPath, ErrorPath}

\* a run that went the whole normal path although a node failed on the way
C4_Witness ==
    /\ pc = "returned"
    /\ trace = NormalPath
    /\ failed # {}

\* C5: handle_error runs exactly when classify_query raised; a failure of a
\* later node leaves the run on the normal path up to calculate_confidence.
C5_ErrorRouteOnlyFromClassification ==
    /\ Ran("handle_error") => "classify_query" \in failed
    /\ Finished /\ "classify_query" \in failed => Ran("handle_error")
    /\ Finished /\ failed \ {"classify_query"} # {} =>
           Ran("calculate_confidence") /\ ~Ran("handle_error")

\* a run whose gather_data and formulate_recommendations failed and that
\* still reached calculate_confidence
C5_Witness ==
    /\ Finished
    /\ {"gather_data", "formulate_recommendations"} \subseteq failed
    /\ Ran("calculate_confidence")

\* C6: when classify_query raised, the run returns confidence 0.1, no chart,
\* the fixed recommendation, the fixed insight and the narrative "Analytics
\* processing encountered an error: <error>", <error> being the message
\* classify_query recorded.
C6_ClassificationFailureResult ==
    pc = "returned" /\ "classify_query" \in failed =>
        /\ result.confidence = 10
        /\ result.charts = EmptyDict
        /\ result.recommendations = <<ErrorRecommendation>>
        /\ result.insights = <<ErrorInsight>>
        /\ result.error = <<"Query classification failed: ">> \o ExcClassifier
        /\ result.analysis =
               <<"Analytics processing encountered an error: ">> \o result.error

\* a run returned after classify_query raised
C6_Witness == pc = "returned" /\ "classify_query" \in failed

\* the search of gather_data returned no document of any content type
RetrievedNothing ==
    \E i \in 1..Len(calls) :
        calls[i].node = "gather_data" /\ calls[i].empty

\* C7: when Retrieval returns no documents at all, process_data sets the
\* fixed "no data" narrative without calling Generation, and the insights of
\* the run are ["No insights could be generated from the available data."].
C7_NoDataInsights ==
    Finished /\ RetrievedNothing =>
        /\ CallsOf("process_data", "generation") = << >>
        /\ state.processed_data.analysis = NoDataAnalysis
        /\ state.insights = <<NoInsights>>

\* the confidence formula of the Confidence Scorer, in hundredths
ConfidenceFormula(n_records, narrative_len, n_insights, has_chart, analysis_type) ==
    LET sum == 50
               + (IF n_records > 50 THEN 20 ELSE IF n_records > 20 THEN 10 ELSE 0)
               + (IF narrative_len > 200 THEN 10 ELSE 0)
               + (IF n_insights >= 3 THEN 10 ELSE 0)
               + (IF has_chart THEN 10 ELSE 0)
               + (IF analysis_type \in {"trend_analysis", "summary"} THEN 5 ELSE 0)
    IN  IF sum < 100 THEN sum ELSE 100

\* the formula on the fields of a state
FormulaOn(s) ==
    ConfidenceFormula(Len(s.raw_data),
                      StrLen(Get(s.processed_data, "analysis", EmptyText)),
                      Len(s.insights),
                      s.charts # EmptyDict,
                      s.analysis_type)

\* C9: calculate_confidence leaves the confidence the documented formula
\* gives for the state the preceding nodes left.
C9_ConfidenceFormula ==
    [][pc = "calculate_confidence" /\ pc' = "END" =>
           state'.confidence = FormulaOn(state)]_vars

\* a comparison run with at most 20 records: no quantity and no type bonus
C9_Witness ==
    /\ Finished
    /\ Ran("calculate_confidence")
    /\ state.analysis_type = "comparison"
    /\ Len(state.raw_data) \in 1..20
    /\ state.charts # EmptyDict
    /\ state.confidence = 60

----------------------------------------------------------------------------
\* RAG workflow: the nodes of MultimodalRAGGraph

RagQueries ==
    { <<"S","h","o","w"," ","t","h","e"," ","r","e","v","e","n","u","e"," ","t","r","e","n","d">>,
      <<"D","r","a","w"," ","a"," ","G","R","A","P","H"," ","o","f"," ","s","a","l","e","s">>,
      <<"P","i","c","t","u","r","e"," ","o","f"," ","t","h","e"," ","d","a","t","a">>,
      <<"C","h","a","r","t"," ","t","h","e"," ","n","u","m","b","e","r","s"," ","i","n"," ","t","h","e"," ","f","i","g","u","r","e">>,
      <<"H","e","l","l","o">> }

TableKeywords ==
    << <<"t","a","b","l","e">>, <<"d","a","t","a">>,
       <<"s","t","a","t","i","s","t","i","c","s">>, <<"n","u","m","b","e","r","s">>,
       <<"t","r","e","n","d">>, <<"c","h","a","r","t">> >>

ImageKeywords ==
    << <<"i","m","a","g","e">>, <<"f","i","g","u","r","e">>,
       <<"d","i","a","g","r","a","m">>, <<"p","h","o","t","o">>,
       <<"p","i","c","t","u","r","e">> >>

ChartKeywords ==
    << <<"t","r","e","n","d">>, <<"c","h","a","r","t">>, <<"g","r","a","p","h">>,
       <<"v","i","s","u","a","l","i","z","a","t","i","o","n">> >>

\* Text documents the text store may return: two of the same page, one whose
\* metadata has no page_number
TextDocSamePage ==
    [page_content |-> <<"Costs fell in the second half.">>,
     metadata |-> [content_type |-> "text", page_number |-> 1]]

TextDocNoPage ==
    [page_content |-> <<"Appendix">>,
     metadata |-> [content_type |-> "text"]]

RagTextDocs == {TextDoc, TextDocSamePage, TextDocNoPage}

RagTableDocs == {DocDated}

\* RAGState(...) in process_query
InitialRagState(query) ==
    [query |-> query,
     retrieved_docs |-> EmptyDict,
     context |-> EmptyText,
     response |-> EmptyText,
     chart_data |-> EmptyDict,
     metadata |-> EmptyDict]

\* an analysis that looks for the keywords in the query as it was typed
_analyze_query_case_sensitive(s) ==
    LET query == s.query
        content_types ==
            <<"text">>
            \o (IF AnyIn(TableKeywords, query) THEN <<"table">> ELSE << >>)
            \o (IF AnyIn(ImageKeywords, query) THEN <<"image">> ELSE << >>)
    IN  [s EXCEPT !.metadata = [content_types |-> content_types,
                                requires_charts |-> AnyIn(ChartKeywords, query)]]

\* an analysis that asks for tables whenever the query asks for a chart
_analyze_query_tables_for_charts(s) ==
    LET query == Lower(s.query)
        content_types ==
            <<"text">>
            \o (IF AnyIn(TableKeywords, query) \/ AnyIn(ChartKeywords, query)
                THEN <<"table">> ELSE << >>)
            \o (IF AnyIn(ImageKeywords, query) THEN <<"image">> ELSE << >>)
    IN  [s EXCEPT !.metadata = [content_types |-> content_types,
                                requires_charts |-> AnyIn(ChartKeywords, query)]]

\* MultimodalRAGGraph._analyze_query
_analyze_query(s) ==
    LET query == Lower(s.query)
        content_types ==
            <<"text">>
            \o (IF AnyIn(TableKeywords, query) THEN <<"table">> ELSE << >>)
            \o (IF AnyIn(ImageKeywords, query) THEN <<"image">> ELSE << >>)
    IN  [s EXCEPT !.metadata = [content_types |-> content_types,
                                requires_charts |-> AnyIn(ChartKeywords, query)]]

\* the search _retrieve_documents issues
RagSearch(s) == [content_types |-> s.metadata.content_types, k_per_type |-> 5]

\* search_multimodal as the RAG workflow sees it
RagSearchOutcomes(content_types) ==
    LET types == {content_types[i] : i \in 1..Len(content_types)}
    IN  {Raised(ExcRetrieval)}
        \cup {Returned([t \in types |-> CASE t = "table" -> tables
                                          [] t = "text" -> texts
                                          [] OTHER -> images]) :
                 tables \in SeqsUpTo(RagTableDocs, MaxDocs),
                 texts \in SeqsUpTo(RagTextDocs, MaxDocs),
                 images \in {<< >>, <<ImageDoc>>}}

\* MultimodalRAGGraph._retrieve_documents
_retrieve_documents(s, out) ==
    IF out.ok THEN [s EXCEPT !.retrieved_docs = out.val]
    ELSE [s EXCEPT !.retrieved_docs = EmptyDict]

\* the order in which search_multimodal inserts the content types
ContentOrder == <<"text", "table", "image">>

\* dict.items() / dict.keys(): the keys in insertion order
Keys(d) == SelectSeq(ContentOrder, LAMBDA t : t \in DOMAIN d)

\* str.upper() and str.title() on the names of the content types
UpperName == [text |-> "TEXT", table |-> "TABLE", image |-> "IMAGE"]

TitleName == [text |-> "Text", table |-> "Table", image |-> "Image"]

\* doc.metadata.get("page_number", "Unknown"), formatted
PageRef(doc) ==
    IF "page_number" \in DOMAIN doc.metadata
    THEN ToString(doc.metadata.page_number) ELSE "Unknown"

\* the context parts of one content type
ContextOf(content_type, docs) ==
    IF docs = << >> THEN << >>
    ELSE << [header |-> <<"\n=== ", UpperName[content_type], " CONTENT ===">>] >>
         \o Flatten([i \in 1..Len(docs) |->
                << [header |-> <<"\n[", TitleName[content_type], " from Page ",
                                 PageRef(docs[i]), "]">>],
                   [content |-> docs[i].page_content] >>])

\* MultimodalRAGGraph._generate_context; the context is kept as the list of
\* parts that the code joins with newlines
_generate_context(s) ==
    LET keys == Keys(s.retrieved_docs)
    IN  [s EXCEPT !.context =
             Flatten([i \in 1..Len(keys) |->
                          ContextOf(keys[i], s.retrieved_docs[keys[i]])])]

\* LLMService.generate_response as the RAG workflow sees it
RagGenerationOutcomes ==
    {Raised(ExcGeneration), Returned(ProseA), Returned(JsonObject)}

\* a response node whose except clause leaves the response as it is
_generate_response_unhandled(s, out) ==
    IF out.ok THEN [s EXCEPT !.response = out.val] ELSE s

\* MultimodalRAGGraph._generate_response
_generate_response(s, out) ==
    IF out.ok THEN [s EXCEPT !.response = out.val]
    ELSE [s EXCEPT !.response = Apology]

\* a chart step that asks for a chart whenever the query wants one
RagChartCall_without_tables(s) == Get(s.metadata, "requires_charts", FALSE)

\* whether _generate_charts calls the Chart collaborator
RagChartCall(s) ==
    /\ Get(s.metadata, "requires_charts", FALSE)
    /\ Get(s.retrieved_docs, "table", << >>) # << >>

\* MultimodalRAGGraph._generate_charts
_generate_charts(s, out) ==
    IF RagChartCall(s)
    THEN IF out.ok THEN [s EXCEPT !.chart_data = out.val]
         ELSE [s EXCEPT !.chart_data = EmptyDict]
    ELSE [s EXCEPT !.chart_data = EmptyDict]

\* f"Page {page_num} ({content_type})"
SourceRef(content_type, doc) == <<"Page ", PageRef(doc), " (", content_type, ")">>

\* the list `sources` of _finalize_response
SourcesOf(s) ==
    LET keys == Keys(s.retrieved_docs)
    IN  Flatten([i \in 1..Len(keys) |->
            [j \in 1..Len(s.retrieved_docs[keys[i]]) |->
                 SourceRef(keys[i], s.retrieved_docs[keys[i]][j])]])

\* the orders in which a set may be iterated
Orders(S) ==
    {order \in [1..Cardinality(S) -> S] :
         \A i, j \in 1..Cardinality(S) : i # j => order[i] # order[j]}

RECURSIVE JoinWith(_, _)
\* sep.join(texts), as the parts of the joined text
JoinWith(sep, texts) ==
    IF texts = << >> THEN << >>
    ELSE IF Len(texts) = 1 THEN Head(texts)
    ELSE Head(texts) \o <<sep>> \o JoinWith(sep, Tail(texts))

\* the list `sources` joined as it is, without set()
SourceOrders_with_duplicates(s) == {SourcesOf(s)}

\* set(sources), iterated in one of its orders
SourceOrders(s) ==
    LET sources == SourcesOf(s)
    IN  Orders({sources[i] : i \in 1..Len(sources)})

\* MultimodalRAGGraph._finalize_response, set(sources) iterated in `order`
_finalize_response(s, order) ==
    IF SourcesOf(s) # << >>
    THEN [s EXCEPT !.response = @ \o <<"\n\n**Sources:** ">> \o JoinWith(", ", order)]
    ELSE s

\* the dict process_query returns
RagResult(s) ==
    [response |-> s.response,
     chart_data |-> s.chart_data,
     sources |-> Keys(s.retrieved_docs),
     metadata |-> s.metadata]

\* the edges of MultimodalRAGGraph._build_graph
RagEdge(node) ==
    CASE node = "analyze_query" -> "retrieve"
      [] node = "retrieve" -> "generate_context"
      [] node = "generate_context" -> "generate_response"
      [] node = "generate_response" -> "generate_charts"
      [] node = "generate_charts" -> "finalize"
      [] node = "finalize" -> "END"

\* one node of the RAG graph ran; process_query awaits the graph outside any
\* try block, so what a node raises reaches the caller
RagNode(node, out, new, called) ==
    IF ~out.ok /\ node \notin TryNodes
    THEN /\ pc' = "raised"
         /\ failed' = failed \cup {node}
         /\ UNCHANGED <<state, result, trace, calls, probe>>
    ELSE /\ state' = new
         /\ pc' = RagEdge(node)
         /\ trace' = Append(trace, node)
         /\ calls' = calls \o called
         /\ failed' = IF out.ok THEN failed ELSE failed \cup {node}
         /\ UNCHANGED <<result, probe>>

\* MultimodalRAGGraph.process_query, up to the await of the graph
process_query ==
    /\ pc = "idle"
    /\ \E query \in RagQueries : state' = InitialRagState(query)
    /\ pc' = "analyze_query"
    /\ UNCHANGED <<result, trace, calls, failed, probe>>

AnalyzeQuery ==
    /\ pc = "analyze_query"
    /\ RagNode("analyze_query", NoCall, _analyze_query(state), << >>)

Retrieve ==
    /\ pc = "retrieve"
    /\ LET search == RagSearch(state)
       IN  \E out \in RagSearchOutcomes(search.content_types) :
               RagNode("retrieve", out, _retrieve_documents(state, out),
                       << [node |-> "retrieve", to |-> "retrieval",
                           content_types |-> search.content_types,
                           k_per_type |-> search.k_per_type,
                           empty |-> NoDocuments(out)] >>)

BuildContext ==
    /\ pc = "generate_context"
    /\ RagNode("generate_context", NoCall, _generate_context(state), << >>)

GenerateResponse ==
    /\ pc = "generate_response"
    /\ \E out \in RagGenerationOutcomes :
           RagNode("generate_response", out, _generate_response(state, out),
                   << Call("generate_response", "generation") >>)

GenerateCharts ==
    /\ pc = "generate_charts"
    /\ IF RagChartCall(state)
       THEN \E out \in ChartOutcomes :
                RagNode("generate_charts", out, _generate_charts(state, out),
                        << [node |-> "generate_charts", to |-> "chart",
                            outcome |-> out] >>)
       ELSE RagNode("generate_charts", NoCall, _generate_charts(state, NoCall), << >>)

Finalize ==
    /\ pc = "finalize"
    /\ \E order \in SourceOrders(state) :
           RagNode("finalize", NoCall, _finalize_response(state, order), << >>)

\* process_query after the graph has finished
RagReturn ==
    /\ pc = "END"
    /\ result' = RagResult(state)
    /\ pc' = "returned"
    /\ UNCHANGED <<state, trace, calls, failed, probe>>

NextRag ==
    \/ process_query
    \/ AnalyzeQuery
    \/ Retrieve
    \/ BuildContext
    \/ GenerateResponse
    \/ GenerateCharts
    \/ Finalize
    \/ RagReturn

\* a RAG run under every combination of collaborator outcomes
SpecRag == Init /\ [][NextRag]_vars

----------------------------------------------------------------------------
\* Properties of the RAG workflow

RagPath ==
    <<"analyze_query", "retrieve", "generate_context", "generate_response",
      "generate_charts", "finalize">>

\* C2: whatever Retrieval, Generation and Chart do, a RAG run executes
\* analyze_query, retrieve, generate_context, generate_response,
\* generate_charts and finalize once each in that order, then returns a
\* result; nothing is raised to the caller and the run never stops before
\* it has returned.
C2_RagRunsEveryStage ==
    /\ pc # "raised"
    /\ IsPrefix(trace, RagPath)
    /\ pc \in {"idle", "returned"} \/ ENABLED NextRag
    /\ pc \notin {"idle", "END", "returned"} => Append(trace, pc) = SubSeq(RagPath, 1, Len(trace) + 1)
    /\ pc \in {"END", "returned"} => trace = RagPath
    /\ pc = "returned" =>
           DOMAIN result = {"response", "chart_data", "sources", "metadata"}

\* a run returned after both its Retrieval and its Generation call failed
C2_Witness ==
    /\ pc = "returned"
    /\ {"retrieve", "generate_response"} \subseteq failed

\* the step in which `node` runs and its collaborator call raises
FailsIn(node) == Runs(node) /\ node \notin failed /\ node \in failed'

\* C17: in a RAG run a failing Retrieval call leaves retrieved_docs the
\* empty mapping, a failing Generation call leaves the fixed apology as the
\* response, a failing Chart call leaves the chart empty, and in each case
\* the next node of the graph runs.
C17_RagFailureDefaults ==
    [][/\ FailsIn("retrieve") =>
              state'.retrieved_docs = EmptyDict /\ pc' = "generate_context"
       /\ FailsIn("generate_response") =>
              state'.response = Apology /\ pc' = "generate_charts"
       /\ FailsIn("generate_charts") =>
              state'.chart_data = EmptyDict /\ pc' = "finalize"]_vars

\* a run returned after its Generation call and its Chart call both failed
C17_Witness ==
    /\ pc = "returned"
    /\ {"generate_response", "generate_charts"} \subseteq failed
    /\ result.chart_data = EmptyDict
    /\ SubSeq(result.response, 1, Len(Apology)) = Apology

----------------------------------------------------------------------------
\* The Query Classifier on its own

\* pieces of query text: keywords of every set in mixed case, a keyword cut
\* in two, and text without keywords
Fragments ==
    { <<"T","r","e","n","d"," ","o","v","e","r"," ","t","i","m","e">>,
      <<" ","v","s"," ","l","a","s","t"," ","y","e","a","r">>,
      <<"C","o","m","p","a","r","e"," ">>,
      <<"S","U","M","M","A","R","Y">>,
      <<"F","o","r","e","c","a","s","t"," ">>,
      <<"h","e","l","l","o"," ">>,
      <<"t","r","E">>,
      <<"N","d">> }

\* the queries handed to the classifier: up to MaxFrags fragments in a row
ClassifierQueries == {Flatten(fs) : fs \in SeqsUpTo(Fragments, MaxFrags)}

\* a caller picks a query
ChooseQuery ==
    /\ pc = "idle"
    /\ \E query \in ClassifierQueries : probe' = [query |-> query]
    /\ pc' = "chosen"
    /\ UNCHANGED <<state, result, trace, calls, failed>>

\* AnalyticsService.classify_query_type on the query
Classify ==
    /\ pc = "chosen"
    /\ probe' = [query |-> probe.query,
                 type |-> classify_query_type(probe.query)]
    /\ pc' = "classified"
    /\ UNCHANGED <<state, result, trace, calls, failed>>

\* classify_query_type again, on the same text and on the text in other cases
Reclassify ==
    /\ pc = "classified"
    /\ probe' = [query |-> probe.query,
                 type |-> probe.type,
                 again |-> classify_query_type(probe.query),
                 upper |-> classify_query_type(Upper(probe.query)),
                 lower |-> classify_query_type(Lower(probe.query))]
    /\ pc' = "reclassified"
    /\ UNCHANGED <<state, result, trace, calls, failed>>

NextClassify == ChooseQuery \/ Classify \/ Reclassify

SpecClassify == Init /\ [][NextClassify]_vars

\* the keyword sets in the order of their priority
Priority ==
    << [type |-> "trend_analysis", words |-> TrendWords],
       [type |-> "comparison", words |-> ComparisonWords],
       [type |-> "summary", words |-> SummaryWords],
       [type |-> "prediction", words |-> PredictionWords] >>

\* the type of the first set of Priority with a keyword in text
FirstMatch(text) ==
    LET hits == {i \in 1..Len(Priority) : AnyIn(Priority[i].words, text)}
    IN  IF hits = {} THEN "general"
        ELSE Priority[CHOOSE i \in hits : \A j \in hits : i <= j].type

TrendVsLastYear ==
    <<"t","r","e","n","d"," ","o","v","e","r"," ","t","i","m","e"," ","v","s"," ","l","a","s","t"," ","y","e","a","r">>

\* C8: the type classify_query_type gives is that of the first keyword set,
\* in the order trend_analysis, comparison, summary, prediction, with a
\* keyword in the lower-cased text, and general when there is none; the same
\* text, in whatever case, always gives the same type; "trend over time vs
\* last year" gives trend_analysis.
C8_ClassifierPriority ==
    /\ pc \in {"classified", "reclassified"} =>
           /\ probe.type = FirstMatch(Lower(probe.query))
           /\ Lower(probe.query) = TrendVsLastYear => probe.type = "trend_analysis"
    /\ pc = "reclassified" =>
           /\ probe.again = probe.type
           /\ probe.upper = probe.type
           /\ probe.lower = probe.type

\* "Trend over time vs last year", with keywords of two sets, was classified
C8_Witness ==
    /\ pc = "reclassified"
    /\ Lower(probe.query) = TrendVsLastYear
    /\ probe.query # TrendVsLastYear
    /\ AnyIn(ComparisonWords, Lower(probe.query))
    /\ probe.type = "trend_analysis"

----------------------------------------------------------------------------
\* The Confidence Scorer on its own

\* what the scorer reads besides raw_data
ScorerSignals ==
    [analysis : {ProseA, TrendNarrative(TRUE)},
     insights : {<< >>, <<NoInsights, NoInsights, NoInsights>>},
     charts : {EmptyDict, ChartSpec},
     analysis_type : {"trend_analysis", "comparison"}]

\* the state calculate_confidence is given: n records and the signals
ScorerState(n, signals) ==
    [InitialAnalyticsState(<<"q">>, signals.analysis_type) EXCEPT
         !.raw_data = Rows("a", n),
         !.processed_data = [analysis |-> signals.analysis],
         !.insights = signals.insights,
         !.charts = signals.charts]

\* two record counts and the other signals are picked
ChooseSignals ==
    /\ pc = "idle"
    /\ \E n \in 0..MaxRecords, m \in 0..MaxRecords, signals \in ScorerSignals :
           /\ n <= m
           /\ probe' = [n |-> n, m |-> m, signals |-> signals]
    /\ pc' = "chosen"
    /\ UNCHANGED <<state, result, trace, calls, failed>>

\* AnalyticsGraph._calculate_confidence on both states
ScoreBoth ==
    /\ pc = "chosen"
    /\ probe' = [n |-> probe.n, m |-> probe.m, signals |-> probe.signals,
                 confidence_n |-> _calculate_confidence(ScorerState(probe.n, probe.signals)).confidence,
                 confidence_m |-> _calculate_confidence(ScorerState(probe.m, probe.signals)).confidence]
    /\ pc' = "scored"
    /\ UNCHANGED <<state, result, trace, calls, failed>>

NextConfidence == ChooseSignals \/ ScoreBoth

SpecConfidence == Init /\ [][NextConfidence]_vars

\* the band of a record count: up to 20, 21 to 50, 51 and more
Band(n) == IF n > 50 THEN 2 ELSE IF n > 20 THEN 1 ELSE 0

\* C10: the other signals being equal, the confidence never decreases when
\* the number of records grows; it is the same within 0..20, within 21..50
\* and from 51 on, and strictly greater at 21 than at 20 and at 51 than at 50.
C10_ConfidenceMonotonic ==
    pc = "scored" =>
        /\ probe.confidence_n <= probe.confidence_m
        /\ Band(probe.n) = Band(probe.m) => probe.confidence_n = probe.confidence_m
        /\ Band(probe.n) < Band(probe.m) => probe.confidence_n < probe.confidence_m

\* 50 and 51 records with every other bonus earned: 0.95, and 1.0 after the
\* clamp
C10_Witness ==
    /\ pc = "scored"
    /\ probe.n = 50
    /\ probe.m = 51
    /\ probe.confidence_n = 95
    /\ probe.confidence_m = 100

----------------------------------------------------------------------------
\* Further properties of the Analytics workflow

ChartTypes == {"trend_analysis", "comparison"}

\* C11: create_visualizations calls the Chart collaborator exactly when
\* analysis_type is trend_analysis or comparison and raw_data is not empty;
\* for any other analysis_type the chart is empty after the node, and so it
\* is when the call raised or returned an empty chart; a chart that was
\* returned is the chart of the state.
C11_ChartGating ==
    [][Runs("create_visualizations") =>
           LET called == state.analysis_type \in ChartTypes /\ state.raw_data # << >>
           IN  /\ called => /\ Len(NewCalls) = 1
                            /\ NewCalls[1].to = "chart"
                            /\ ~NewCalls[1].outcome.ok => state'.charts = EmptyDict
                            /\ NewCalls[1].outcome.ok =>
                                   state'.charts = NewCalls[1].outcome.val
               /\ ~called => NewCalls = << >> /\ state'.charts = EmptyDict
               /\ state.analysis_type \notin ChartTypes => state'.charts = EmptyDict]_vars

\* a comparison run with records got the chart the collaborator returned
C11_Witness ==
    /\ Finished
    /\ state.analysis_type = "comparison"
    /\ state.raw_data # << >>
    /\ CallsOf("create_visualizations", "chart") # << >>
    /\ state.charts = ChartSpec

\* what the except clause of each node writes before the exception text
ErrorPrefix ==
    [classify_query |-> "Query classification failed: ",
     gather_data |-> "Data gathering failed: ",
     process_data |-> "Data processing failed: ",
     generate_insights |-> "Insight generation failed: ",
     create_visualizations |-> "Visualization creation failed: ",
     formulate_recommendations |-> "Recommendation generation failed: ",
     calculate_confidence |-> "Confidence calculation failed: "]

\* the last node of the normal path that raised
LastFailed ==
    LET hits == {i \in 1..Len(NormalPath) : NormalPath[i] \in failed}
    IN  NormalPath[CHOOSE i \in hits : \A j \in hits : j <= i]

\* C13 as stated: a returned result has a non-empty error only when the run
\* went through handle_error, and a run that went through
\* calculate_confidence returns an empty error.
C13_ErrorOnlyOnErrorRoute ==
    pc = "returned" =>
        /\ result.error # EmptyText => Ran("handle_error")
        /\ Ran("calculate_confidence") => result.error = EmptyText

\* C13, amended: the returned error is non-empty exactly when some node
\* raised, and is then the message of the last node that raised; a run
\* through handle_error always has one, a run through calculate_confidence
\* has one exactly when a node after classify_query raised.
C13_ErrorIsLastFailure ==
    pc = "returned" =>
        /\ result.error # EmptyText <=> failed # {}
        /\ failed # {} => result.error[1] = ErrorPrefix[LastFailed]
        /\ Ran("handle_error") => result.error # EmptyText
        /\ Ran("calculate_confidence") =>
               (result.error # EmptyText <=> failed \ {"classify_query"} # {})

\* a run that went through calculate_confidence and returned the error of
\* its failed retrieval
C13_Witness ==
    /\ pc = "returned"
    /\ Ran("calculate_confidence")
    /\ failed = {"gather_data"}
    /\ result.error = <<"Data gathering failed: ">> \o ExcRetrieval

\* C14: in every state of an Analytics run, and in the result, insights has
\* at most 5 items and recommendations has at most 5 items, whatever the
\* Generation collaborator answered.
C14_AtMostFiveItems ==
    /\ pc # "idle" => Len(state.insights) <= 5 /\ Len(state.recommendations) <= 5
    /\ pc = "returned" => Len(result.insights) <= 5 /\ Len(result.recommendations) <= 5

\* C15: once the state of a run exists its query never changes, and no node
\* other than classify_query changes analysis_type.
C15_QueryAndTypeFrozen ==
    [][/\ pc # "idle" => state'.query = state.query
       /\ pc \notin {"idle", "classify_query"} =>
              state'.analysis_type = state.analysis_type]_vars

\* a run that went through handle_error and still has the analysis type its
\* caller gave, and the query
C15_Witness ==
    /\ pc = "returned"
    /\ Ran("handle_error")
    /\ state.analysis_type = "summary"
    /\ result.query = state.query

----------------------------------------------------------------------------
\* Two runs on one graph instance, interleaved at the collaborator calls.
\* probe holds the instance: its attributes and the runs it is serving.

RunIds == {1, 2}

\* a run nobody has submitted yet
NotStarted ==
    [kind |-> "none", pc |-> "idle", state |-> EmptyDict, in_flight |-> FALSE,
     query |-> EmptyText, outs |-> << >>, result |-> NoResult,
     cancelled |-> FALSE, pending |-> FALSE, issued_after_cancel |-> FALSE]

\* what a run is started with: the workflow and the query
Submissions ==
    [kind : {"analytics"},
     query : { <<"C","o","m","p","a","r","e"," ","Q","1"," ","v","s"," ","Q","2"," ","r","e","v","e","n","u","e">>,
               <<"H","e","l","l","o">> }]
    \cup
    [kind : {"rag"},
     query : { <<"S","h","o","w"," ","t","h","e"," ","r","e","v","e","n","u","e"," ","t","r","e","n","d">>,
               <<"H","e","l","l","o">> }]

\* initial_state of process_analytics_query / process_query
InitialState(kind, query) ==
    IF kind = "analytics" THEN InitialAnalyticsState(query, "None")
    ELSE InitialRagState(query)

\* the entry point of the compiled graph
EntryPoint(kind) == IF kind = "analytics" THEN "classify_query" ELSE "analyze_query"

\* the collaborator the node awaits when given s, "none" when it awaits none
NodeCall(node, s) ==
    CASE node \in {"gather_data", "retrieve"} -> "retrieval"
      [] node = "process_data" -> ProcessCall(s)
      [] node = "generate_insights" -> IF InsightsCall(s) THEN "generation" ELSE "none"
      [] node = "create_visualizations" -> IF ChartCall(s) THEN "chart" ELSE "none"
      [] node \in {"formulate_recommendations", "generate_response"} -> "generation"
      [] node = "generate_charts" -> IF RagChartCall(s) THEN "chart" ELSE "none"
      [] OTHER -> "none"

\* the content types the node asks Retrieval for
NodeSearch(node, s) ==
    CASE node = "gather_data" -> GatherSearch(s).content_types
      [] node = "retrieve" -> RagSearch(s).content_types
      [] OTHER -> <<"table">>

\* one document of each requested content type
OneOfEach(content_types) ==
    [t \in {content_types[i] : i \in 1..Len(content_types)} |->
         CASE t = "table" -> <<DocDated>>
           [] t = "text" -> <<TextDoc>>
           [] OTHER -> <<ImageDoc>>]

\* what the node may be answered: a failure or one value of its collaborator,
\* and for finalize the order in which set(sources) is iterated
FewOutcomes(node, s) ==
    CASE NodeCall(node, s) = "retrieval" ->
             {Raised(ExcRetrieval), Returned(OneOfEach(NodeSearch(node, s)))}
      [] NodeCall(node, s) = "generation" -> {Raised(ExcGeneration), Returned(JsonList3)}
      [] NodeCall(node, s) = "chart" -> {Raised(ExcChart), Returned(ChartSpec)}
      [] NodeCall(node, s) = "none" /\ node = "classify_query" -> ClassifierOutcomes
      [] NodeCall(node, s) = "none" /\ node = "finalize" ->
             {Returned(order) : order \in SourceOrders(s)}
      [] OTHER -> {NoCall}

\* the node function of the graph
NodeApply(node, s, out) ==
    CASE node = "classify_query" -> _classify_query(s, out)
      [] node = "gather_data" -> _gather_data(s, out)
      [] node = "process_data" -> _process_data(s, out)
      [] node = "generate_insights" -> _generate_insights(s, out)
      [] node = "create_visualizations" -> _create_visualizations(s, out)
      [] node = "formulate_recommendations" -> _formulate_recommendations(s, out)
      [] node = "calculate_confidence" -> _calculate_confidence(s)
      [] node = "handle_error" -> _handle_error(s)
      [] node = "analyze_query" -> _analyze_query(s)
      [] node = "retrieve" -> _retrieve_documents(s, out)
      [] node = "generate_context" -> _generate_context(s)
      [] node = "generate_response" -> _generate_response(s, out)
      [] node = "generate_charts" -> _generate_charts(s, out)
      [] node = "finalize" -> _finalize_response(s, out.val)

\* the edge taken after the node
NodeEdge(kind, node, new) ==
    IF kind = "analytics" THEN AnalyticsEdge(node, new) ELSE RagEdge(node)

\* what process_analytics_query / process_query returns for the final state
ResultOf(kind, query, s) ==
    IF kind = "analytics" THEN [AnalyticsResult(s) EXCEPT !.query = query]
    ELSE RagResult(s)

\* the exception classes that derive from BaseException and not from
\* Exception
BaseExceptionOnly == {"CancelledError", "KeyboardInterrupt", "SystemExit"}

\* what the await of a cancelled task raises: asyncio.CancelledError, whose
\* str() is empty
Cancelled == [ok |-> FALSE, exc |-> EmptyText, class |-> "CancelledError"]

\* a bare except clause, which catches every class
CaughtByExceptException_bare(class) == TRUE

\* whether `except Exception` catches an exception of the class
CaughtByExceptException(class) == class \notin BaseExceptionOnly

\* a node of run r reading the query from an attribute of the instance that
\* the first run set
RunState_shared_query(runs, r) ==
    IF runs[1].kind = runs[r].kind
    THEN [runs[r].state EXCEPT !.query = runs[1].query]
    ELSE runs[r].state

\* the state dict a node of run r is handed: the one created for that run
RunState(runs, r) == runs[r].state

\* the module-level graph instance is constructed
CreateInstance ==
    /\ pc = "idle"
    /\ pc' = "serving"
    /\ probe' = [runs |-> [r \in RunIds |-> NotStarted], overlapped |-> FALSE]
    /\ UNCHANGED <<state, result, trace, calls, failed>>

\* a caller awaits process_analytics_query / process_query
Submit(r) ==
    /\ pc = "serving"
    /\ probe.runs[r].pc = "idle"
    /\ \E sub \in Submissions :
           probe' = [probe EXCEPT
               !.runs[r] = [NotStarted EXCEPT !.kind = sub.kind,
                                              !.query = sub.query,
                                              !.state = InitialState(sub.kind, sub.query),
                                              !.pc = EntryPoint(sub.kind)]]
    /\ UNCHANGED <<pc, state, result, trace, calls, failed>>

\* run r is at a node
AtNode(r) ==
    /\ pc = "serving"
    /\ probe.runs[r].pc \in AnalyticsNodes \cup {"analyze_query", "retrieve",
           "generate_context", "generate_response", "generate_charts", "finalize"}

\* the node of run r awaits its collaborator: the run is suspended
IssueCall(r) ==
    /\ AtNode(r)
    /\ ~probe.runs[r].in_flight
    /\ NodeCall(probe.runs[r].pc, RunState(probe.runs, r)) # "none"
    /\ probe' = [probe EXCEPT
           !.runs[r].in_flight = TRUE,
           !.runs[r].issued_after_cancel = @ \/ probe.runs[r].cancelled,
           !.overlapped = @ \/ \E o \in RunIds \ {r} : probe.runs[o].in_flight]
    /\ UNCHANGED <<pc, state, result, trace, calls, failed>>

\* the node of run r finishes: its call is answered, or it awaited nothing
CompleteNode(r) ==
    /\ AtNode(r)
    /\ ~probe.runs[r].pending
    /\ LET run == probe.runs[r]
           s == RunState(probe.runs, r)
       IN  /\ run.in_flight = (NodeCall(run.pc, s) # "none")
           /\ \E out \in FewOutcomes(run.pc, s) :
                  LET new == NodeApply(run.pc, s, out)
                  IN  probe' = [probe EXCEPT
                          !.runs[r].state = new,
                          !.runs[r].pc = NodeEdge(run.kind, run.pc, new),
                          !.runs[r].in_flight = FALSE,
                          !.runs[r].outs = Append(@, out)]
    /\ UNCHANGED <<pc, state, result, trace, calls, failed>>

\* the caller of run r abandons it while its collaborator call is in flight:
\* the task awaiting the run is cancelled
Cancel(r) ==
    /\ AtNode(r)
    /\ probe.runs[r].in_flight
    /\ ~probe.runs[r].cancelled
    /\ probe' = [probe EXCEPT !.runs[r].cancelled = TRUE, !.runs[r].pending = TRUE]
    /\ UNCHANGED <<pc, state, result, trace, calls, failed>>

\* the await of the cancelled run r raises CancelledError inside the node: an
\* except clause that catches it runs and the graph goes on, otherwise the
\* exception leaves the node, graph.ainvoke and the run
CancelledAtAwait(r) ==
    /\ AtNode(r)
    /\ probe.runs[r].pending
    /\ LET run == probe.runs[r]
           s == RunState(probe.runs, r)
       IN  IF run.pc \in TryNodes /\ CaughtByExceptException(Cancelled.class)
           THEN LET new == NodeApply(run.pc, s, Cancelled)
                IN  probe' = [probe EXCEPT
                        !.runs[r].state = new,
                        !.runs[r].pc = NodeEdge(run.kind, run.pc, new),
                        !.runs[r].in_flight = FALSE,
                        !.runs[r].pending = FALSE,
                        !.runs[r].outs = Append(@, Cancelled)]
           ELSE probe' = [probe EXCEPT
                        !.runs[r].pc = "cancelled",
                        !.runs[r].in_flight = FALSE,
                        !.runs[r].pending = FALSE]
    /\ UNCHANGED <<pc, state, result, trace, calls, failed>>

\* graph.ainvoke of run r returned
ReturnRun(r) ==
    /\ pc = "serving"
    /\ probe.runs[r].pc = "END"
    /\ probe' = [probe EXCEPT
           !.runs[r].pc = "returned",
           !.runs[r].result = ResultOf(probe.runs[r].kind, probe.runs[r].query,
                                       probe.runs[r].state)]
    /\ UNCHANGED <<pc, state, result, trace, calls, failed>>

NextRuns ==
    \/ CreateInstance
    \/ \E r \in RunIds : Submit(r)
    \/ \E r \in RunIds : IssueCall(r)
    \/ \E r \in RunIds : CompleteNode(r)
    \/ \E r \in RunIds : Cancel(r)
    \/ \E r \in RunIds : CancelledAtAwait(r)
    \/ \E r \in RunIds : ReturnRun(r)

\* two runs served by one instance
SpecRuns == Init /\ [][NextRuns]_vars

RECURSIVE Replay(_, _, _, _)
\* the final state of a run executed alone from `node` on, answered by outs
Replay(kind, node, s, outs) ==
    IF node = "END" \/ outs = << >> THEN s
    ELSE LET new == NodeApply(node, s, Head(outs))
         IN  Replay(kind, NodeEdge(kind, node, new), new, Tail(outs))

\* the result of the run executed alone
Alone(run) ==
    ResultOf(run.kind, run.query,
             Replay(run.kind, EntryPoint(run.kind),
                    InitialState(run.kind, run.query), run.outs))

\* C12: however two runs on one instance are interleaved at their
\* collaborator calls, the result of each is the result of that run executed
\* alone on the same query with the same answers, and a step of one run
\* leaves every field of the other run as it was.
C12_RunsIndependent ==
    [][pc = "serving" =>
           /\ \A r \in RunIds :
                  probe'.runs[r].pc = "returned" =>
                      probe'.runs[r].result = Alone(probe'.runs[r])
           /\ \A r \in RunIds :
                  probe'.runs[r] # probe.runs[r] =>
                      \A o \in RunIds \ {r} : probe'.runs[o] = probe.runs[o]]_vars

\* an Analytics run and a RAG run, or two runs of one workflow on different
\* queries, returned after both had a call in flight at the same time
C12_Witness ==
    /\ pc = "serving"
    /\ probe.overlapped
    /\ \A r \in RunIds : probe.runs[r].pc = "returned"
    /\ probe.runs[1].kind = probe.runs[2].kind
    /\ probe.runs[1].query # probe.runs[2].query
    /\ probe.runs[1].result # probe.runs[2].result

C19_RagChartGating ==
    [][/\ Runs("generate_charts") =>
            LET tables == IF "table" \in DOMAIN state.retrieved_docs
                          THEN state.retrieved_docs["table"] ELSE << >>
                called == state.metadata.requires_charts /\ tables # << >>
            IN  /\ called => /\ Len(NewCalls) = 1
                             /\ NewCalls[1].to = "chart"
                             /\ ~NewCalls[1].outcome.ok =>
                                    state'.chart_data = EmptyDict
                             /\ NewCalls[1].outcome.ok =>
                                    state'.chart_data = NewCalls[1].outcome.val
                /\ ~called => NewCalls = << >> /\ state'.chart_data = EmptyDict
                /\ "retrieve" \in failed => NewCalls = << >>
       /\ pc = "END" /\ pc' = "returned" =>
            LET chart == CallsOf("generate_charts", "chart")
            IN  /\ Len(chart) <= 1
                /\ chart = << >> => result'.chart_data = EmptyDict
                /\ chart # << >> /\ ~chart[1].outcome.ok =>
                       result'.chart_data = EmptyDict
                /\ chart # << >> /\ chart[1].outcome.ok =>
                       result'.chart_data = chart[1].outcome.val]_vars

\* a run whose query wanted a chart and found a table, and whose Chart call
\* raised, returned an empty chart
C19_Witness ==
    /\ pc = "returned"
    /\ state.metadata.requires_charts
    /\ "table" \in DOMAIN state.retrieved_docs
    /\ CallsOf("generate_charts", "chart") # << >>
    /\ ~CallsOf("generate_charts", "chart")[1].outcome.ok
    /\ result.chart_data = EmptyDict

\* the (page number, content type) pairs of the retrieved documents, the
\* page number as it is written; a document without one has "Unknown"
SourcePairs(s) ==
    UNION {{[content_type |-> t,
             page |-> IF "page_number" \in DOMAIN s.retrieved_docs[t][i].metadata
                      THEN ToString(s.retrieved_docs[t][i].metadata.page_number)
                      ELSE "Unknown"] : i \in 1..Len(s.retrieved_docs[t])} :
           t \in DOMAIN s.retrieved_docs}

\* the entries of a Sources line whose parts are `line`: "Page ", the page,
\* " (", the content type and ")" for each entry, ", " between two entries
LineEntries(line) ==
    [k \in 1..((Len(line) + 1) \div 6) |->
        [content_type |-> line[6 * k - 2], page |-> line[6 * k - 4]]]

\* `line` is made of entries and separators and of nothing else
WellFormedLine(line) ==
    /\ (Len(line) + 1) % 6 = 0
    /\ \A k \in 1..((Len(line) + 1) \div 6) :
           /\ line[6 * k - 5] = "Page "
           /\ line[6 * k - 3] = " ("
           /\ line[6 * k - 1] = ")"
           /\ 6 * k < Len(line) => line[6 * k] = ", "

\* C20: finalize appends "\n\n**Sources:** " and a line to the response
\* exactly when some document was retrieved; the line has one entry for each
\* distinct (page number, content type) pair of the retrieved documents and
\* no other entry; when nothing was retrieved the response stays as it was.
C20_SourcesLine ==
    [][Runs("finalize") =>
           LET pairs == SourcePairs(state)
               docs == UNION {{state.retrieved_docs[t][i] :
                                  i \in 1..Len(state.retrieved_docs[t])} :
                              t \in DOMAIN state.retrieved_docs}
               old == Len(state.response)
               new == Len(state'.response)
               line == SubSeq(state'.response, old + 2, new)
               entries == LineEntries(line)
           IN  /\ docs = {} <=> state'.response = state.response
               /\ (docs = {}) = (pairs = {})
               /\ docs # {} =>
                      /\ new > old + 1
                      /\ SubSeq(state'.response, 1, old) = state.response
                      /\ state'.response[old + 1] = "\n\n**Sources:** "
                      /\ WellFormedLine(line)
                      /\ Len(entries) = Cardinality(pairs)
                      /\ {entries[k] : k \in 1..Len(entries)} = pairs]_vars

\* two text documents of page 1 and a table of page 3 were retrieved, and
\* the response ends with a Sources line of two entries
C20_Witness ==
    /\ pc = "returned"
    /\ "table" \in DOMAIN state.retrieved_docs
    /\ state.retrieved_docs["text"] = <<TextDoc, TextDocSamePage>>
    /\ state.retrieved_docs["table"] = <<DocDated>>
    /\ Len(state.response) > 12
    /\ state.response[Len(state.response) - 11] = "\n\n**Sources:** "
    /\ Cardinality({state.response[Len(state.response) - 9],
                    state.response[Len(state.response) - 3]}) = 2

----------------------------------------------------------------------------
\* AnalyzeQuery of the RAG workflow on its own

\* pieces of query text: every keyword in some case, "graph" cut in two, and
\* text without keywords
RagFragments ==
    { <<"T","a","b","l","e"," ">>, <<"D","A","T","A">>,
      <<"S","t","a","t","i","s","t","i","c","s">>, <<" ","n","u","m","b","e","r","s">>,
      <<"t","R","E","N","D">>, <<"C","h","a","r","t">>,
      <<"i","m","a","g","e"," ">>, <<"F","i","g","u","r","e">>,
      <<"D","I","A","G","R","A","M">>, <<"p","h","o","t","o">>,
      <<" ","P","i","c","t","u","r","e">>,
      <<"V","i","s","u","a","l","i","z","a","t","i","o","n">>,
      <<"g","r","a">>, <<"P","H">>, <<"h","e","l","l","o"," ">> }

\* the queries handed to _analyze_query: up to MaxFrags fragments in a row
AnalyzerQueries == {Flatten(fs) : fs \in SeqsUpTo(RagFragments, MaxFrags)}

\* a caller picks a query
ChooseRagQuery ==
    /\ pc = "idle"
    /\ \E query \in AnalyzerQueries : probe' = [query |-> query]
    /\ pc' = "chosen"
    /\ UNCHANGED <<state, result, trace, calls, failed>>

\* MultimodalRAGGraph._analyze_query on the initial state of the query
Analyze ==
    /\ pc = "chosen"
    /\ probe' = [query |-> probe.query,
                 metadata |-> _analyze_query(InitialRagState(probe.query)).metadata]
    /\ pc' = "analyzed"
    /\ UNCHANGED <<state, result, trace, calls, failed>>

\* _analyze_query again, on the same text and on the text in other cases
Reanalyze ==
    /\ pc = "analyzed"
    /\ probe' = [query |-> probe.query,
                 metadata |-> probe.metadata,
                 again |-> _analyze_query(InitialRagState(probe.query)).metadata,
                 upper |-> _analyze_query(InitialRagState(Upper(probe.query))).metadata,
                 lower |-> _analyze_query(InitialRagState(Lower(probe.query))).metadata]
    /\ pc' = "reanalyzed"
    /\ UNCHANGED <<state, result, trace, calls, failed>>

NextAnalyze == ChooseRagQuery \/ Analyze \/ Reanalyze

SpecAnalyze == Init /\ [][NextAnalyze]_vars

\* w occurs in text at some position
Occurs(text, w) ==
    \E i \in 1..Len(text) :
        /\ i + Len(w) - 1 <= Len(text)
        /\ \A j \in 1..Len(w) : text[i + j - 1] = w[j]

\* some keyword of the list occurs in text
Mentions(text, keywords) == \E k \in 1..Len(keywords) : Occurs(text, keywords[k])

\* C18: the content types _analyze_query asks for hold text always, table
\* exactly when the lower-cased query has a table keyword and image exactly
\* when it has an image keyword, each once; requires_charts says whether it
\* has a chart keyword; the same text in any case gives the same answer.
C18_AnalyzeQueryKeywords ==
    /\ pc \in {"analyzed", "reanalyzed"} =>
           LET text == Lower(probe.query)
               types == probe.metadata.content_types
               asked == {types[i] : i \in 1..Len(types)}
           IN  /\ asked \subseteq {"text", "table", "image"}
               /\ Cardinality(asked) = Len(types)
               /\ "text" \in asked
               /\ "table" \in asked <=> Mentions(text, TableKeywords)
               /\ "image" \in asked <=> Mentions(text, ImageKeywords)
               /\ probe.metadata.requires_charts <=> Mentions(text, ChartKeywords)
    /\ pc = "reanalyzed" =>
           /\ probe.again = probe.metadata
           /\ probe.upper = probe.metadata
           /\ probe.lower = probe.metadata

\* "graPH" typed in mixed case asks for a chart and for text documents only
C18_Witness ==
    /\ pc = "reanalyzed"
    /\ probe.query = <<"g","r","a","P","H">>
    /\ probe.metadata.content_types = <<"text">>
    /\ probe.metadata.requires_charts

----------------------------------------------------------------------------
\* Further properties of the stages of the Analytics workflow

\* the breadth of retrieval for each analysis type: content types and k
Breadth(analysis_type) ==
    CASE analysis_type \in {"trend_analysis", "comparison"} ->
             [types |-> {"table", "text"}, k |-> 15]
      [] analysis_type = "summary" ->
             [types |-> {"text", "table", "image"}, k |-> 10]
      [] OTHER -> [types |-> {"text", "table"}, k |-> 8]

\* the elements of a sequence
Range(seq) == {seq[i] : i \in 1..Len(seq)}

\* C21: gather_data issues one Retrieval call whose content types and k are
\* those of the analysis type of the state: table and text with k = 15 for
\* trend_analysis and comparison, text, table and image with k = 10 for
\* summary, text and table with k = 8 for any other type.
C21_RetrievalBreadth ==
    [][Runs("gather_data") =>
           /\ Len(NewCalls) = 1
           /\ NewCalls[1].to = "retrieval"
           /\ Range(NewCalls[1].content_types) = Breadth(state.analysis_type).types
           /\ Len(NewCalls[1].content_types)
                  = Cardinality(Breadth(state.analysis_type).types)
           /\ NewCalls[1].k_per_type = Breadth(state.analysis_type).k
           /\ state.analysis_type = classify_query_type(state.query)]_vars

\* a summary run asked for images too, ten per type
C21_Witness ==
    /\ pc = "returned"
    /\ state.analysis_type = "summary"
    /\ CallsOf("gather_data", "retrieval") # << >>
    /\ CallsOf("gather_data", "retrieval")[1].k_per_type = 10
    /\ "image" \in Range(CallsOf("gather_data", "retrieval")[1].content_types)

\* the routine _process_data dispatches to for an analysis type
Routine(analysis_type) ==
    IF analysis_type \in {"trend_analysis", "comparison", "summary"}
    THEN analysis_type ELSE "general"

\* C22: with records in raw_data, process_data runs the routine of the
\* analysis type (general for prediction and any other type), and that
\* routine makes one call, to the Generation collaborator, whose answer is
\* the narrative.
C22_RoutinesCallGeneration ==
    [][Runs("process_data") /\ state.raw_data # << >> =>
           /\ Len(NewCalls) = 1
           /\ NewCalls[1].to = "generation"
           /\ "process_data" \notin failed' =>
                  /\ state'.processed_data.analysis \in Generated
                  /\ Routine(state.analysis_type) = "trend_analysis"
                         <=> "trend_data" \in DOMAIN state'.processed_data
                  /\ Routine(state.analysis_type) = "comparison"
                         <=> "comparison_data" \in DOMAIN state'.processed_data
                  /\ Routine(state.analysis_type) = "summary"
                         <=> "summary_stats" \in DOMAIN state'.processed_data
                  /\ Routine(state.analysis_type) = "general"
                         <=> "data_overview" \in DOMAIN state'.processed_data]_vars

\* C26: a run that did not go through handle_error ends, and returns, with
\* a confidence of at least 0.5, whatever the collaborators did; 0.1 is the
\* confidence of the error route only.
C26_NormalPathConfidenceFloor ==
    /\ Finished /\ ~Ran("handle_error") =>
           /\ Ran("calculate_confidence")
           /\ state.confidence >= 50
    /\ pc = "returned" /\ ~Ran("handle_error") => result.confidence >= 50
    /\ pc = "returned" /\ Ran("handle_error") => result.confidence = 10

\* a run whose Retrieval call and whose two Generation calls all raised, with
\* no Chart call for want of records, returned the base confidence
C26_Witness ==
    /\ pc = "returned"
    /\ ~Ran("handle_error")
    /\ failed = {"gather_data", "generate_insights", "formulate_recommendations"}
    /\ Len(calls) = 3
    /\ state.analysis_type = "comparison"
    /\ result.confidence = 50

\* C27: a node after classify_query that fails writes its own message to
\* error, over whatever message was there, and leaves every other field of
\* the state, its own output field included, as it was before the node.
C27_FailureWritesOnlyError ==
    [][\A node \in {"gather_data", "process_data", "generate_insights",
                    "create_visualizations", "formulate_recommendations",
                    "calculate_confidence"} :
           FailsIn(node) =>
               /\ DOMAIN state' = DOMAIN state
               /\ \A field \in DOMAIN state \ {"error"} : state'[field] = state[field]
               /\ state'.error # state.error
               /\ state'.error[1] = ErrorPrefix[node]]_vars

\* formulate_recommendations failed after gather_data had: its message
\* replaced the earlier one, the insights are still there and there are no
\* recommendations
C27_Witness ==
    /\ pc = "calculate_confidence"
    /\ failed = {"gather_data", "formulate_recommendations"}
    /\ state.error[1] = ErrorPrefix["formulate_recommendations"]
    /\ state.insights # << >>
    /\ state.recommendations = << >>

----------------------------------------------------------------------------
\* Table extraction on its own

\* a table document whose metadata holds an empty list of records and whose
\* text holds one parseable line
DocEmptyRecords ==
    [page_content |-> << << <<"region", " north">>, <<"sales", " $1,200">> >> >>,
     metadata |-> [content_type |-> "table", page_number |-> 5,
                   table_data |-> List(<< >>)]]

\* a table document without records in its metadata and without a "|" line
DocNoRecords ==
    [page_content |-> << << <<"Totals by region">> >> >>,
     metadata |-> [content_type |-> "table", page_number |-> 6]]

\* the table documents handed to extract_table_data
ExtractDocs == TableDocs \cup {DocEmptyRecords, DocNoRecords}

\* a search returned these table documents
ChooseTableDocs ==
    /\ pc = "idle"
    /\ \E table_docs \in SeqsUpTo(ExtractDocs, MaxDocs) :
           probe' = [table_docs |-> table_docs]
    /\ pc' = "chosen"
    /\ UNCHANGED <<state, result, trace, calls, failed>>

\* AnalyticsService.extract_table_data on them
ExtractTableData ==
    /\ pc = "chosen"
    /\ probe' = [table_docs |-> probe.table_docs,
                 all_data |-> extract_table_data(probe.table_docs)]
    /\ pc' = "extracted"
    /\ UNCHANGED <<state, result, trace, calls, failed>>

NextExtract == ChooseTableDocs \/ ExtractTableData

SpecExtract == Init /\ [][NextExtract]_vars

\* the structured row records a table document carries
StructuredRecords(doc) ==
    IF "table_data" \in DOMAIN doc.metadata /\ IsList(doc.metadata.table_data)
    THEN doc.metadata.table_data.list ELSE << >>

\* C23: the extracted data is, document after document, the structured
\* records of the document when it carries some, and the records parsed
\* from its text when it carries none, be it no table_data or an empty one.
C23_StructuredOrParsed ==
    pc = "extracted" =>
        probe.all_data =
            Flatten([i \in 1..Len(probe.table_docs) |->
                        IF StructuredRecords(probe.table_docs[i]) # << >>
                        THEN StructuredRecords(probe.table_docs[i])
                        ELSE _parse_table_content(probe.table_docs[i].page_content)])

----------------------------------------------------------------------------
\* Time series of the trend analysis on their own

\* the longest list of records handed to _extract_time_series
MaxSeries == 3

\* the records of the tables: a year or a date that parses, a year that does
\* not, two date-like columns, no date-like column, a revenue of zero
SeriesRecords ==
    { [year |-> Str("2020"), revenue |-> Num(100)],
      [year |-> Str("2021"), revenue |-> Num(150)],
      [year |-> Str("2020"), revenue |-> Num(0)],
      [year |-> Str("n/a"), revenue |-> Num(150)],
      [date |-> Str("2020-03-01"), year |-> Str("2021"), revenue |-> Num(100)],
      [region |-> Str("north"), revenue |-> Num(100)] }

\* the order in which the records above hold their columns
ColumnOrder == <<"date", "year", "region", "revenue">>

\* record.items(): the keys in insertion order
Items(record) == SelectSeq(ColumnOrder, LAMBDA k : k \in DOMAIN record)

\* date_columns of _extract_time_series: the date-like keys of the first five
\* records, one after the other and as often as they are met
DateColumns(data) ==
    Flatten([i \in 1..Len(Take(data, 5)) |->
                SelectSeq(Items(data[i]), LAMBDA k : k \in DateLikeKeys)])

\* the entries one record adds to time_series: one for each element of
\* date_columns that the record holds as a str that parses
RecordEntries(record, date_columns) ==
    Flatten([j \in 1..Len(date_columns) |->
                IF /\ date_columns[j] \in DOMAIN record
                   /\ IsStr(record[date_columns[j]])
                   /\ ParseDate(record[date_columns[j]].str) # 0
                THEN << [date |-> ParseDate(record[date_columns[j]].str),
                         data |-> record] >>
                ELSE << >>])

RECURSIVE InsertByDate(_, _)
\* entry put behind the entries of `sorted` that are not later than it
InsertByDate(entry, sorted) ==
    IF sorted = << >> THEN <<entry>>
    ELSE IF Head(sorted).date <= entry.date
         THEN <<Head(sorted)>> \o InsertByDate(entry, Tail(sorted))
         ELSE <<entry>> \o sorted

RECURSIVE SortByDate(_)
\* sorted(time_series, key=lambda x: x["date"]): a stable sort
SortByDate(series) ==
    IF series = << >> THEN << >>
    ELSE InsertByDate(series[Len(series)], SortByDate(SubSeq(series, 1, Len(series) - 1)))

\* AnalyticsService._extract_time_series; None is the empty sequence
_extract_time_series(data) ==
    LET date_columns == DateColumns(data)
    IN  IF data = << >> \/ date_columns = << >> THEN << >>
        ELSE SortByDate(Flatten([i \in 1..Len(data) |->
                                    RecordEntries(data[i], date_columns)]))

\* a search returned tables with these records
ChooseRecords ==
    /\ pc = "idle"
    /\ \E data \in SeqsUpTo(SeriesRecords, MaxSeries) : probe' = [data |-> data]
    /\ pc' = "chosen"
    /\ UNCHANGED <<state, result, trace, calls, failed>>

\* analyze_trends extracts the time series
ExtractTimeSeries ==
    /\ pc = "chosen"
    /\ probe' = [data |-> probe.data,
                 time_series |-> _extract_time_series(probe.data)]
    /\ pc' = "extracted"
    /\ UNCHANGED <<state, result, trace, calls, failed>>

\* float(str(value).replace(',', '').replace('$', '')): the number, or the
\* ValueError of a text that is no number
Float(value) ==
    IF "num" \in DOMAIN value THEN [ok |-> TRUE, val |-> value.num]
    ELSE CASE value.str = "2020" -> [ok |-> TRUE, val |-> 2020]
           [] value.str = "2021" -> [ok |-> TRUE, val |-> 2021]
           [] OTHER -> [ok |-> FALSE]

\* the columns of the first entry whose value is a number
NumericCols(sorted_data) ==
    SelectSeq(Items(sorted_data[1].data),
              LAMBDA k : Float(sorted_data[1].data[k]).ok)

\* `values` of _analyze_time_series for col: the numbers of the entries in
\* date order, a missing column counting as 0
ValuesOf(sorted_data, col) ==
    LET floats == [i \in 1..Len(sorted_data) |->
                      Float(Get(sorted_data[i].data, col, Num(0)))]
        numbers == SelectSeq(floats, LAMBDA f : f.ok)
    IN  [i \in 1..Len(numbers) |-> numbers[i].val]

\* the absolute value
Abs(n) == IF n < 0 THEN 0 - n ELSE n

\* round((num / den) * 100, 2) in hundredths of a percent, den not 0
Percent(num, den) ==
    LET q == (2 * 10000 * Abs(num) + Abs(den)) \div (2 * Abs(den))
    IN  IF (num < 0) = (den < 0) THEN q ELSE 0 - q

\* dividing by a first value of 0 raises ZeroDivisionError
DividesByZero(values) == Len(values) > 1 /\ values[1] = 0 /\ values[Len(values)] # 0

\* the trend entry of a column with more than one value
TrendOf(col, values) ==
    LET first == values[1]
        last == values[Len(values)]
    IN  [column |-> col,
         direction |-> IF last > first THEN "increasing"
                       ELSE IF last < first THEN "decreasing" ELSE "stable",
         change_percent |-> IF last > first THEN Percent(last - first, first)
                            ELSE IF last < first THEN Percent(first - last, first)
                            ELSE 0,
         start_value |-> first,
         end_value |-> last,
         data_points |-> Len(values)]

ExcZeroDivision == <<"float division by zero">>

\* AnalyticsService._analyze_time_series: the dict it returns, or the
\* ZeroDivisionError it raises
_analyze_time_series(time_series) ==
    LET sorted_data == SortByDate(time_series)
        numeric_cols == NumericCols(sorted_data)
        trended == SelectSeq(numeric_cols,
                             LAMBDA col : Len(ValuesOf(sorted_data, col)) > 1)
    IN  IF \E j \in 1..Len(trended) : DividesByZero(ValuesOf(sorted_data, trended[j]))
        THEN Raised(ExcZeroDivision)
        ELSE Returned([trends |-> [j \in 1..Len(trended) |->
                                      TrendOf(trended[j], ValuesOf(sorted_data, trended[j]))],
                       data_points |-> Len(time_series),
                       date_range |-> [start |-> sorted_data[1].date,
                                       end |-> sorted_data[Len(sorted_data)].date]])

\* analyze_trends analyzes the time series when there is one
AnalyzeTimeSeries ==
    /\ pc = "extracted"
    /\ probe.time_series # << >>
    /\ probe' = [data |-> probe.data,
                 time_series |-> probe.time_series,
                 outcome |-> _analyze_time_series(probe.time_series)]
    /\ pc' = "analyzed"
    /\ UNCHANGED <<state, result, trace, calls, failed>>

NextTrends == ChooseRecords \/ ExtractTimeSeries \/ AnalyzeTimeSeries

SpecTrends == Init /\ [][NextTrends]_vars

\* the number of elements of seq that equal e
Count(seq, e) == Cardinality({i \in 1..Len(seq) : seq[i] = e})

\* the dates the date-like fields of a record parse to
DatesOf(record) ==
    {ParseDate(record[k].str) :
        k \in {c \in DOMAIN record \cap DateLikeKeys : IsStr(record[c])}} \ {0}

\* C24: the time series holds at most one entry for each record of the data,
\* dated by a date-like field of that record that parses, none for a record
\* without such a field, and its dates never decrease.
C24_OneEntryPerRecord ==
    pc = "extracted" =>
        LET series == probe.time_series
            datas == [i \in 1..Len(series) |-> series[i].data]
        IN  /\ \A i \in 1..Len(series) :
                   /\ Count(probe.data, series[i].data) > 0
                   /\ series[i].date \in DatesOf(series[i].data)
                   /\ Count(datas, series[i].data) <= Count(probe.data, series[i].data)
            /\ Len(series) <= Len(probe.data)
            /\ \A i \in 1..(Len(series) - 1) : series[i].date <= series[i + 1].date

\* the numbers a column holds in the entries of a series, in date order
ColumnValues(series, col) ==
    LET held == SelectSeq(series, LAMBDA e : col \in DOMAIN e.data /\ Float(e.data[col]).ok)
    IN  [i \in 1..Len(held) |-> Float(held[i].data[col]).val]

\* C25: for each column with at least two numbers in the time series, the
\* analysis returns one trend entry: increasing when the last value is above
\* the first, decreasing when it is below, stable when they are equal, with
\* the size of the change in percent of the first value.
C25_TrendForEveryColumn ==
    pc = "analyzed" =>
        \A col \in UNION {DOMAIN probe.time_series[i].data :
                             i \in 1..Len(probe.time_series)} :
            LET values == ColumnValues(probe.time_series, col)
                first == values[1]
                last == values[Len(values)]
            IN  Len(values) >= 2 =>
                    /\ probe.outcome.ok
                    /\ \E j \in 1..Len(probe.outcome.val.trends) :
                           LET t == probe.outcome.val.trends[j]
                           IN  /\ t.column = col
                               /\ last > first => t.direction = "increasing"
                               /\ last < first => t.direction = "decreasing"
                               /\ last = first => t.direction = "stable"
                               /\ first # 0 =>
                                      Abs(t.change_percent)
                                          = Abs(Percent(last - first, first))

----------------------------------------------------------------------------
\* The analysis_type argument of process_analytics_query

\* what a caller may pass as analysis_type: None or any name
GivenTypes ==
    {"None", "trend_analysis", "comparison", "summary", "prediction", "general",
     "forecast"}

\* process_analytics_query called with a query and an analysis_type, which
\* is remembered
SubmitWithType ==
    /\ pc = "idle"
    /\ \E query \in ClassifierQueries, analysis_type \in GivenTypes :
           /\ state' = InitialAnalyticsState(query, analysis_type)
           /\ probe' = [query |-> query, analysis_type |-> analysis_type]
    /\ pc' = "classify_query"
    /\ UNCHANGED <<result, trace, calls, failed>>

\* the run up to the node after classify_query, and the error route to its
\* end
NextGiven == SubmitWithType \/ ClassifyQuery \/ HandleError \/ AnalyticsReturn

SpecGiven == Init /\ [][NextGiven]_vars

\* C28: when classify_query succeeds the state it leaves is the one a call
\* without analysis_type leaves, with the type classify_query_type gives the
\* query, whatever the caller passed; what the caller passed is still the
\* type of the state only when classify_query failed.
C28_GivenTypeIgnored ==
    /\ pc = "gather_data" =>
           /\ "classify_query" \notin failed
           /\ state = [InitialAnalyticsState(probe.query, "None")
                          EXCEPT !.analysis_type = classify_query_type(probe.query)]
    /\ pc \in {"handle_error", "END", "returned"} =>
           /\ "classify_query" \in failed
           /\ state.analysis_type
                  = IF probe.analysis_type = "None" THEN "" ELSE probe.analysis_type

\* the caller asked for a summary of a query the classifier calls a trend
\* analysis: the run goes on as a trend analysis
C28_Witness ==
    /\ pc = "gather_data"
    /\ probe.analysis_type = "summary"
    /\ classify_query_type(probe.query) = "trend_analysis"
    /\ state.analysis_type = "trend_analysis"

----------------------------------------------------------------------------
\* Further properties of the RAG workflow

\* the query names a graph or a visualization and no table keyword
GraphWithoutTable(query) ==
    /\ Mentions(Lower(query), <<<<"g","r","a","p","h">>,
                                <<"v","i","s","u","a","l","i","z","a","t","i","o","n">>>>)
    /\ ~Mentions(Lower(query), TableKeywords)

\* C29: in a run whose query names a graph or a visualization and no table
\* keyword, requires_charts is true, no Retrieval call asks for tables and
\* none are retrieved, the Chart collaborator is never called, and the chart
\* of the state and of the result is empty.
C29_ChartWithoutTables ==
    pc # "idle" /\ GraphWithoutTable(state.query) =>
        /\ Ran("analyze_query") =>
               /\ state.metadata.requires_charts
               /\ "table" \notin Range(state.metadata.content_types)
        /\ \A i \in 1..Len(calls) :
               /\ calls[i].to # "chart"
               /\ calls[i].to = "retrieval" => "table" \notin Range(calls[i].content_types)
        /\ "table" \notin DOMAIN state.retrieved_docs
        /\ state.chart_data = EmptyDict
        /\ pc = "returned" => result.chart_data = EmptyDict

\* "Draw a GRAPH of sales" retrieved a text document and returned no chart
C29_Witness ==
    /\ pc = "returned"
    /\ GraphWithoutTable(state.query)
    /\ state.metadata.requires_charts
    /\ "text" \in DOMAIN state.retrieved_docs
    /\ state.retrieved_docs["text"] # << >>
    /\ CallsOf("generate_charts", "chart") = << >>
    /\ result.chart_data = EmptyDict

----------------------------------------------------------------------------
\* LLMService.generate_response and its retries

\* stop=stop_after_attempt(3)
stop_after_attempt == 3

\* the prompts of the callers
Prompts == {"insights_prompt", "recommendations_prompt"}

\* what client.generate_completion does in one attempt: it raises, or it
\* returns a completion
ClientOutcomes ==
    {Raised(<<"500 Server Error">>), Raised(<<"400 Bad Request">>),
     Raised(<<"Connection timed out">>)}
    \cup {Returned(g) : g \in Generated}

\* a retry that allows one attempt more
ShouldStop_one_more(attempt_number) == attempt_number >= stop_after_attempt + 1

\* whether the retry gives up after the attempt of this number failed
ShouldStop(attempt_number) == attempt_number >= stop_after_attempt

\* a caller awaits generate_response(prompt)
CallGenerate ==
    /\ pc = "idle"
    /\ \E prompt \in Prompts : probe' = [prompt |-> prompt, attempts |-> << >>]
    /\ pc' = "attempting"
    /\ UNCHANGED <<state, result, trace, calls, failed>>

\* one attempt: the body of generate_response runs; a completion is returned
\* to the caller, an exception is logged and raised again, and the retry
\* either waits for the next attempt or gives up and raises to the caller
Attempt ==
    /\ pc = "attempting"
    /\ \E out \in ClientOutcomes :
           /\ probe' = [probe EXCEPT !.attempts = Append(@, out)]
           /\ IF out.ok
              THEN pc' = "returned" /\ result' = out.val
              ELSE /\ pc' = IF ShouldStop(Len(probe.attempts) + 1)
                            THEN "raised" ELSE "waiting"
                   /\ UNCHANGED result
    /\ UNCHANGED <<state, trace, calls, failed>>

\* wait=wait_exponential(multiplier=1, min=4, max=10): the sleep between two
\* attempts is over
Wait ==
    /\ pc = "waiting"
    /\ pc' = "attempting"
    /\ UNCHANGED <<state, result, trace, calls, failed, probe>>

NextRetry == CallGenerate \/ Attempt \/ Wait

SpecRetry == Init /\ [][NextRetry]_vars

\* the first n attempts all failed
AllFailed(n) == \A i \in 1..n : ~probe.attempts[i].ok

\* C30: one request makes at most 3 attempts; it returns the completion of
\* its first successful attempt, which is its last attempt; it raises to the
\* caller only when 3 attempts have failed one after the other.
C30_AtMostThreeAttempts ==
    pc # "idle" =>
        /\ Len(probe.attempts) <= 3
        /\ pc \in {"attempting", "waiting"} =>
               Len(probe.attempts) < 3 /\ AllFailed(Len(probe.attempts))
        /\ pc = "returned" =>
               /\ Len(probe.attempts) >= 1
               /\ AllFailed(Len(probe.attempts) - 1)
               /\ probe.attempts[Len(probe.attempts)].ok
               /\ result = probe.attempts[Len(probe.attempts)].val
        /\ pc = "raised" => Len(probe.attempts) = 3 /\ AllFailed(3)

\* a request whose third attempt succeeded after two failures
C30_Witness ==
    /\ pc = "returned"
    /\ Len(probe.attempts) = 3
    /\ ~probe.attempts[1].ok
    /\ ~probe.attempts[2].ok
    /\ result = probe.attempts[3].val

============================================================================
